---- MODULE Spec2Model ----
(***************************************************************************)
(* Model of the script generator pipeline: selector policy and grammar     *)
(* checker, the intent safety gate with deduplication, the code emitter    *)
(* with occurrence disambiguation, and the pipeline orchestrator.          *)
(*                                                                         *)
(* Text (selectors, intent text) is modelled as a sequence of one          *)
(* character strings, so that trimming, regular-expression matching and    *)
(* string formatting are computed the way the Python code computes them.   *)
(***************************************************************************)
EXTENDS Integers, Sequences, FiniteSets, TLC

VARIABLES
    \* ---- selector grammar checker (IntentValidator._is_valid_css_selector)
    sel_input,        \* the string handed to the checker
    sel_checked,      \* the trimmed form the checker actually examined
    sel_verdict,      \* "unchecked", TRUE or FALSE
    sel_first,        \* verdict of the first call on this input
    sel_calls,        \* number of calls made so far
    \* ---- selector policy (IntentGenerator._build_selector_from_hints)
    hints,            \* element_hints of a normalized step
    hint_selector,    \* selector built from the hints, or "unbuilt"
    \* ---- safety gate (IntentValidator.validate_and_clean_intents)
    gate_pc,          \* "idle", "ready", "done"
    raw_intents,      \* input intents
    cleaned_intents,  \* intents accepted by validate_single_intent
    deduplicated,     \* the returned sequence
    report,           \* the validation report
    \* ---- code emitter (JavaScriptCodeGenerator.generate_code_from_ast)
    emit_pc,          \* "idle", "ready", "emitting", "done"
    ast_nodes,        \* input node list
    emit_intents,     \* the intents argument (<<>> for None)
    first_url,        \* the explicit override (<<>> for None)
    safe_nodes,       \* nodes that passed the final safety gate
    selector_usage_count,        \* selector -> total among interactive nodes
    selector_occurrence_counter, \* selector -> occurrences seen while emitting
    skip_first_navigate,
    emit_idx,          \* index (0-based) of the next node of safe_nodes
    initial_url,       \* URL of the initial navigation block, <<>> until set
    blocks,            \* emitted action blocks, in order
    generated_code,    \* the blocks of the script, <<>> for ""
    code_errors,       \* hard errors recorded by the emitter
    \* ---- orchestrator (PlaywrightScriptGenerator.run_pipeline)
    run_pc,            \* position in run_pipeline
    run_options,       \* the arguments save_intermediates and validate_dom
    run_preprocessed,  \* self.preprocessed_steps
    run_steps,         \* self.steps
    run_intents,       \* self.intents
    run_nodes,         \* self.ast_nodes
    run_code,          \* self.generated_code: the blocks, <<>> for ""
    run_codegen_calls, \* number of calls of generate_code_from_ast
    run_saved,         \* whether generated_script.js was written
    run_test_results,  \* self.test_results: <<>> for None, else <<result>>
    run_summary,       \* <<>> until run_pipeline returns, then <<summary>>
    \* ---- preprocessor (StepsPreprocessor.preprocess)
    pre_pc,            \* "idle", "ready", "done"
    raw_steps,         \* self.raw_steps: the recorded events
    pre_categories,    \* the category the loop gave to each event
    preprocessed_steps, \* self.preprocessed_steps
    context_events,    \* self.context_events
    \* ---- IR builder (ASTConverter.convert_all_intents_to_ast)
    conv_pc,           \* "idle", "loop", "returned"
    conv_intents,      \* the intents argument
    conv_idx,          \* index (0-based) of the next intent of the loop
    conv_ast_node,     \* ast_node of the last iteration: <<>> for None
    conv_ast_nodes     \* self.ast_nodes

selVars  == <<sel_input, sel_checked, sel_verdict, sel_first, sel_calls>>
hintVars == <<hints, hint_selector>>
gateVars == <<gate_pc, raw_intents, cleaned_intents, deduplicated, report>>
emitVars == <<emit_pc, ast_nodes, emit_intents, first_url, safe_nodes,
              selector_usage_count, selector_occurrence_counter,
              skip_first_navigate, emit_idx, initial_url, blocks,
              generated_code, code_errors>>
runVars  == <<run_pc, run_options, run_preprocessed, run_steps, run_intents,
              run_nodes, run_code, run_codegen_calls, run_saved,
              run_test_results, run_summary>>
preVars  == <<pre_pc, raw_steps, pre_categories, preprocessed_steps, context_events>>
convVars == <<conv_pc, conv_intents, conv_idx, conv_ast_node, conv_ast_nodes>>
vars == <<selVars, hintVars, gateVars, emitVars, runVars, preVars, convVars>>

\* Python's None.
None == "None"

-----------------------------------------------------------------------------
(* Bounds of the model *)

\* longest selector string enumerated over SelAlphabet
MaxSelLen == 3
\* longest intent sequence handed to the safety gate
MaxIntents == 3
\* longest node sequence handed to the emitter
MaxNodes == 4
\* how many times the grammar checker is called on one input
MaxCalls == 2
\* longest recording handed to a run of the pipeline
MaxSteps == 3
\* longest recording of raw events handed to the preprocessor
MaxRaw == 2

-----------------------------------------------------------------------------
(* Characters and strings *)

Lowers == <<"a","b","c","d","e","f","g","h","i","j","k","l","m",
            "n","o","p","q","r","s","t","u","v","w","x","y","z">>
Uppers == <<"A","B","C","D","E","F","G","H","I","J","K","L","M",
            "N","O","P","Q","R","S","T","U","V","W","X","Y","Z">>
Digits == {"0","1","2","3","4","5","6","7","8","9"}

Range(s) == {s[i] : i \in DOMAIN s}

\* [a-zA-Z]
IsLetter(c) == c \in Range(Lowers) \cup Range(Uppers)
\* [a-zA-Z0-9_-]
IsIdentChar(c) == IsLetter(c) \/ c \in Digits \/ c \in {"_", "-"}
\* [a-zA-Z0-9-]
IsWordDashChar(c) == IsLetter(c) \/ c \in Digits \/ c = "-"
\* \w
IsWordChar(c) == IsLetter(c) \/ c \in Digits \/ c = "_"
\* \s  and what str.strip() removes
IsSpace(c) == c \in {" ", "\n", "\r", "\t"}

\* str.lower()
Lower(s) ==
    [i \in DOMAIN s |->
        IF \E k \in DOMAIN Uppers : Uppers[k] = s[i]
        THEN Lowers[CHOOSE k \in DOMAIN Uppers : Uppers[k] = s[i]]
        ELSE s[i]]

\* str.strip(): drop leading and trailing whitespace
Strip(s) ==
    LET keep == {i \in DOMAIN s : ~IsSpace(s[i])}
    IN  IF keep = {} THEN <<>>
        ELSE LET lo == CHOOSE i \in keep : \A j \in keep : i <= j
                 hi == CHOOSE i \in keep : \A j \in keep : j <= i
             IN  SubSeq(s, lo, hi)

\* str.count(c)
Count(s, c) == Cardinality({i \in DOMAIN s : s[i] = c})

\* needle in s (substring test)
Contains(s, needle) ==
    \E i \in 0..(Len(s) - Len(needle)) :
        \A k \in 1..Len(needle) : s[i + k] = needle[k]

\* s.startswith(prefix)
StartsWith(s, prefix) ==
    /\ Len(prefix) <= Len(s)
    /\ \A k \in 1..Len(prefix) : s[k] = prefix[k]

-----------------------------------------------------------------------------
(* Selector grammar checker: IntentValidator._is_valid_css_selector          *)

\* A selector that is Python's None (no string at all).
NoSelector == <<"None">>

\* Python truthiness of an Optional[str]
Truthy(s) == s # NoSelector /\ s # <<>>

\* The regular expressions of invalid_patterns, each as re.search on the
\* trimmed selector t.  t has no trailing whitespace, so "$" is the end of t.
InvalidEdgeChars == {"{", "}", "(", ")", ">"}
StartsInvalid(t) == Len(t) > 0 /\ t[1] \in InvalidEdgeChars
EndsInvalid(t) == Len(t) > 0 /\ t[Len(t)] \in InvalidEdgeChars
HtmlBrackets(t) == \E i \in DOMAIN t : t[i] \in {"<", ">"}
Newlines(t) == \E i \in DOMAIN t : t[i] \in {"\n", "\r"}
ChildOrphan(t) ==
    /\ Len(t) > 0 /\ t[1] = ">"
    /\ \E j \in 2..Len(t) :
          /\ IsWordChar(t[j])
          /\ \A k \in 2..(j - 1) : IsSpace(t[k])

MatchesInvalidPattern(t) ==
    \/ (\A i \in DOMAIN t : IsSpace(t[i]))
    \/ (StartsWith(t, <<"[", "]">>))
    \/ (t = <<"(", ")">>)
    \/ StartsInvalid(t)
    \/ EndsInvalid(t)
    \/ (\E i \in 1..(Len(t) - 1) : IsSpace(t[i]) /\ IsSpace(t[i + 1]))
    \/ HtmlBrackets(t)
    \/ Newlines(t)
    \/ ChildOrphan(t)

BracketsBalanced(t) ==
    /\ Count(t, "[") = Count(t, "]")
    /\ Count(t, "(") = Count(t, ")")

\* re.match(r'^[a-zA-Z]+\s*>\s*$', t)
ElementThenChild(t) ==
    \E p \in DOMAIN t :
        /\ t[p] = ">"
        /\ \A k \in (p + 1)..Len(t) : IsSpace(t[k])
        /\ \E e \in 1..(p - 1) :
              /\ \A k \in 1..e : IsLetter(t[k])
              /\ \A k \in (e + 1)..(p - 1) : IsSpace(t[k])

ValidStart(t) == Len(t) > 0 /\ (t[1] \in {"#", ".", "["} \/ IsLetter(t[1]))

AllLetters(t) == Len(t) > 0 /\ \A i \in DOMAIN t : IsLetter(t[i])

valid_elements ==
    { <<"d","i","v">>, <<"s","p","a","n">>, <<"p">>,
      <<"a">>, <<"b","u","t","t","o","n">>, <<"i","n","p","u","t">>,
      <<"f","o","r","m">>, <<"l","a","b","e","l">>, <<"h","1">>,
      <<"h","2">>, <<"h","3">>, <<"h","4">>,
      <<"h","5">>, <<"h","6">>, <<"u","l">>,
      <<"o","l">>, <<"l","i">>, <<"t","a","b","l","e">>,
      <<"t","r">>, <<"t","d">>, <<"t","h">>,
      <<"i","m","g">>, <<"v","i","d","e","o">>, <<"a","u","d","i","o">>,
      <<"s","e","c","t","i","o","n">>, <<"a","r","t","i","c","l","e">>, <<"n","a","v">>,
      <<"h","e","a","d","e","r">>, <<"f","o","o","t","e","r">>, <<"m","a","i","n">> }

\* ^#[a-zA-Z0-9_-]+$   and   ^\.[a-zA-Z0-9_-]+$
PrefixedIdent(t) == Len(t) >= 2 /\ \A i \in 2..Len(t) : IsIdentChar(t[i])
\* ^\[[a-zA-Z0-9_-]+.*\]$   ("." does not match a newline)
AttributeShape(t) ==
    /\ Len(t) >= 3
    /\ IsIdentChar(t[2])
    /\ t[Len(t)] = "]"
    /\ \A i \in 3..(Len(t) - 1) : t[i] # "\n"
\* ^[a-zA-Z][a-zA-Z0-9-]*$
BareWord(t) ==
    /\ Len(t) >= 1 /\ IsLetter(t[1])
    /\ \A i \in 2..Len(t) : IsWordDashChar(t[i])

\* A shape test whose id and class patterns lack the closing anchor.
ShapeOkUnanchored(t) ==
    IF t[1] = "#" THEN Len(t) >= 2 /\ IsIdentChar(t[2])
    ELSE IF t[1] = "." THEN Len(t) >= 2 /\ IsIdentChar(t[2])
    ELSE IF t[1] = "[" THEN AttributeShape(t)
    ELSE IF AllLetters(t) THEN Lower(t) \in valid_elements \/ BareWord(t)
    ELSE TRUE

\* The if/elif chain of the "basic CSS structure" test.  A selector that
\* starts with a letter and is not made of letters only falls through it.
ShapeOk(t) ==
    IF t[1] = "#" THEN PrefixedIdent(t)
    ELSE IF t[1] = "." THEN PrefixedIdent(t)
    ELSE IF t[1] = "[" THEN AttributeShape(t)
    ELSE IF AllLetters(t) THEN Lower(t) \in valid_elements \/ BareWord(t)
    ELSE TRUE

\* Everything after the emptiness tests, on the trimmed, non-empty selector.
PassesSelectorChecks(t) ==
    /\ ~MatchesInvalidPattern(t)
    /\ BracketsBalanced(t)
    /\ ~ElementThenChild(t)
    /\ ValidStart(t)
    /\ ShapeOk(t)

\* A checker whose empty-after-trim test is inverted.
IsValidAcceptingBlank(selector) ==
    IF ~Truthy(selector) THEN FALSE
    ELSE LET t == Strip(selector)
         IN  IF Len(t) = 0 THEN TRUE ELSE PassesSelectorChecks(t)

\* _is_valid_css_selector(selector)
IsValidCssSelector(selector) ==
    IF ~Truthy(selector) THEN FALSE
    ELSE LET t == Strip(selector)
         IN  IF Len(t) = 0 THEN FALSE ELSE PassesSelectorChecks(t)

-----------------------------------------------------------------------------
(* Inputs of the grammar checker *)

\* One representative per character class the checker tells apart: a letter,
\* a digit, the two prefixes, brackets and parentheses, a brace, the HTML
\* brackets, a blank, a newline and a character of no class.
SelAlphabet ==
    {"a", "1", "#", ".", "[", "]", "(", ")", "{", "<", ">", " ", "\n", "!"}

RECURSIVE StringsOfLen(_)
StringsOfLen(n) ==
    IF n = 0 THEN {<<>>}
    ELSE {Append(s, c) : s \in StringsOfLen(n - 1), c \in SelAlphabet}

\* Strings named by the documentation of the checker.
ExampleSelectors ==
    { <<" ", " ">>, <<"[", "]">>, <<"<", "d", "i", "v", ">">>, <<"p", ">">>,
      <<"a", "(", ")", "b">>, <<"#", "g", "o">>, <<" ", "#", "g", "o", " ">>,
      <<"[", "n", "a", "m", "e", "=", "n", "]">>,
      <<"i", "n", "p", "u", "t", "[", "n", "a", "m", "e", "=", "q", "]">>,
      <<"d", "i", "v", " ", "a">> }

-----------------------------------------------------------------------------
(* Calls of the grammar checker.  The checker reads nothing but its         *)
(* argument; a call records the trimmed form it examined and its verdict.   *)

SelIdle ==
    /\ sel_input = <<>> /\ sel_checked = <<>> /\ sel_verdict = "unchecked"
    /\ sel_first = "unchecked" /\ sel_calls = 0

SelInit ==
    /\ sel_input \in (UNION {StringsOfLen(k) : k \in 0..MaxSelLen}) \cup ExampleSelectors
    /\ sel_checked = <<>>
    /\ sel_verdict = "unchecked"
    /\ sel_first = "unchecked"
    /\ sel_calls = 0

\* is_valid(sel_input), first call
CheckSelector ==
    /\ sel_calls = 0
    /\ sel_checked' = Strip(sel_input)
    /\ sel_verdict' = IF IsValidCssSelector(sel_input) THEN "valid" ELSE "invalid"
    /\ sel_first' = sel_verdict'
    /\ sel_calls' = 1
    /\ UNCHANGED sel_input

\* is_valid called again on the same string
RecheckSelector ==
    /\ sel_calls >= 1 /\ sel_calls < MaxCalls
    /\ sel_checked' = Strip(sel_input)
    /\ sel_verdict' = IF IsValidCssSelector(sel_input) THEN "valid" ELSE "invalid"
    /\ sel_calls' = sel_calls + 1
    /\ UNCHANGED <<sel_input, sel_first>>

\* is_valid called on the trimmed form the previous call examined
RecheckTrimmed ==
    /\ sel_calls >= 1 /\ sel_calls < MaxCalls
    /\ sel_input' = sel_checked
    /\ sel_checked' = Strip(sel_checked)
    /\ sel_verdict' = IF IsValidCssSelector(sel_checked) THEN "valid" ELSE "invalid"
    /\ sel_calls' = sel_calls + 1
    /\ UNCHANGED sel_first

-----------------------------------------------------------------------------
(* Selector policy: IntentGenerator._build_selector_from_hints              *)

\* str.split()[0]: the first whitespace-separated token, <<>> if there is none
FirstToken(s) ==
    LET keep == {i \in DOMAIN s : ~IsSpace(s[i])}
    IN  IF keep = {} THEN <<>>
        ELSE LET lo == CHOOSE i \in keep : \A j \in keep : i <= j
                 stops == {i \in lo..Len(s) : IsSpace(s[i])}
                 hi == IF stops = {} THEN Len(s)
                       ELSE (CHOOSE i \in stops : \A j \in stops : i <= j) - 1
             IN  SubSeq(s, lo, hi)

\* _build_selector_from_hints(hints)
BuildSelectorFromHints(h) ==
    IF h.id # <<>> THEN <<"#">> \o h.id
    ELSE IF h.name # <<>>
        THEN <<"[", "n", "a", "m", "e", "=", "'">> \o h.name \o <<"'", "]">>
    ELSE IF h.class # <<>> /\ FirstToken(h.class) # <<>>
        THEN <<".">> \o FirstToken(h.class)
    ELSE IF h.test_id # <<>>
        THEN <<"[", "d", "a", "t", "a", "-", "t", "e", "s", "t", "i", "d", "=", "'">>
             \o h.test_id \o <<"'", "]">>
    ELSE IF h.aria_label # <<>>
        THEN <<"[", "a", "r", "i", "a", "-", "l", "a", "b", "e", "l", "=", "'">>
             \o h.aria_label \o <<"'", "]">>
    ELSE <<>>

\* element_hints of a normalized step: every hint is "" or the attribute text
HintValues == {<<>>, <<"v">>}
HintInputs ==
    [id : HintValues, class : {<<>>, <<"b">>, <<"b", " ", "c">>, <<" ">>}, name : HintValues,
     test_id : HintValues, aria_label : HintValues, tag : {<<>>, <<"d", "i", "v">>}]

HintIdle ==
    /\ hints = [id |-> <<>>, class |-> <<>>, name |-> <<>>, test_id |-> <<>>,
                aria_label |-> <<>>, tag |-> <<>>]
    /\ hint_selector = <<"unbuilt">>

HintInit == hints \in HintInputs /\ hint_selector = <<"unbuilt">>

\* the selector of the intent generated for the step
ChooseSelector ==
    /\ hint_selector = <<"unbuilt">>
    /\ hint_selector' = BuildSelectorFromHints(hints)
    /\ UNCHANGED hints

-----------------------------------------------------------------------------
(* Selector from markup: IntentValidator._extract_stable_selector           *)

\* str.find(needle, start): 0-based position of the first match at or after
\* start, -1 if there is none
Find(s, needle, start) ==
    LET hits == {i \in start..(Len(s) - Len(needle)) :
                    \A k \in 1..Len(needle) : s[i + k] = needle[k]}
    IN  IF hits = {} THEN -1 ELSE CHOOSE i \in hits : \A j \in hits : i <= j

\* s[start:end] for start >= 0; a negative end counts from the end of s
Slice(s, start, end) ==
    LET stop == IF end < 0 THEN Len(s) + end ELSE end
        hi == IF stop > Len(s) THEN Len(s) ELSE stop
    IN  IF start >= hi THEN <<>> ELSE SubSeq(s, start + 1, hi)

\* The value read for one attribute: the text between the first occurrence
\* of key (such as id=") and the next double quote.
AttrAfter(html, key) ==
    LET start == Find(html, key, 0) + Len(key)
        end == Find(html, <<"\"">>, start)
    IN  Slice(html, start, end)

\* "if value and value.strip()"
HasText(v) == v # <<>> /\ Strip(v) # <<>>

KeyName == <<"n", "a", "m", "e", "=", "\"">>

\* re.match(r"<([a-zA-Z0-9]+)", html).group(1), <<>> when there is no match
TagOf(html) ==
    IF Len(html) < 2 \/ html[1] # "<" \/ ~(IsLetter(html[2]) \/ html[2] \in Digits)
    THEN <<>>
    ELSE LET ends == {i \in 2..Len(html) :
                         \A k \in 2..i : IsLetter(html[k]) \/ html[k] \in Digits}
             hi == CHOOSE i \in ends : \A j \in ends : j <= i
         IN  SubSeq(html, 2, hi)

\* One attribute branch: the selector built around value v when v has text,
\* <<>> when the branch falls through.
SelectorAround(v, prefix, suffix) ==
    IF HasText(v) THEN prefix \o v \o suffix ELSE <<>>

\* 'if key in html: ... if value and value.strip(): return selector'
AttrBranch(html, key, prefix, suffix) ==
    IF Contains(html, key)
    THEN SelectorAround(AttrAfter(html, key), prefix, suffix)
    ELSE <<>>

\* the class branch keeps the first class only
FirstClass(v) == IF HasText(v) THEN <<".">> \o FirstToken(v) ELSE <<>>
ClassBranch(html) ==
    IF Contains(html, <<"c", "l", "a", "s", "s", "=", "\"">>) THEN FirstClass(AttrAfter(html, <<"c", "l", "a", "s", "s", "=", "\"">>)) ELSE <<>>

\* the first branch, in the order of the code, that returns a selector
FirstReturned(branches) ==
    LET taken == {i \in DOMAIN branches : branches[i] # <<>>}
    IN  IF taken = {} THEN NoSelector
        ELSE branches[CHOOSE i \in taken : \A j \in taken : i <= j]

\* _extract_stable_selector(step), step.eventElement = html
ExtractStableSelector(html) ==
    IF html = <<>> THEN NoSelector
    ELSE FirstReturned(<<
            AttrBranch(html, <<"i", "d", "=", "\"">>, <<"#">>, <<>>),
            AttrBranch(html, <<"d", "a", "t", "a", "-", "t", "e", "s", "t", "i", "d", "=", "\"">>, <<"[">> \o <<"d", "a", "t", "a", "-", "t", "e", "s", "t", "i", "d", "=", "\"">>, <<"\"", "]">>),
            AttrBranch(html, KeyName, <<"[">> \o KeyName, <<"\"", "]">>),
            AttrBranch(html, <<"a", "r", "i", "a", "-", "l", "a", "b", "e", "l", "=", "\"">>, <<"[">> \o <<"a", "r", "i", "a", "-", "l", "a", "b", "e", "l", "=", "\"">>, <<"\"", "]">>),
            ClassBranch(html),
            TagOf(html) >>)

-----------------------------------------------------------------------------
(* Safety gate: IntentValidator.validate_single_intent                      *)

action_types_needing_selector ==
    {"STEPS_FEATURE_CLICK_EVENT", "STEPS_FEATURE_TYPE_EVENT",
     "STEPS_FEATURE_SCROLL_EVENT", "STEPS_FEATURE_HOVER_EVENT",
     "click", "type", "select", "submit", "hover"}

actions_not_needing_selector ==
    {"STEPS_FEATURE_TAB_VISIBLE_EVENT", "STEPS_FEATURE_NAVIGATE_EVENT",
     "STEPS_FEATURE_WAIT_EVENT", "PREPROCESSED"}

\* A gate that does not require a selector for kinds it does not know.
ActionRequiresSelectorLenient(event_type) ==
    event_type \in action_types_needing_selector

\* _action_requires_selector(event_type)
ActionRequiresSelector(event_type) ==
    IF event_type \in action_types_needing_selector THEN TRUE
    ELSE IF event_type \in actions_not_needing_selector THEN FALSE
    ELSE TRUE

\* A test of the context kind that reads the flag only.
IsContextKindFlagOnly(obj) == obj.original_step.is_context_event

\* "is_context_event or normalized_action == 'wait'"
IsContextKind(obj) ==
    obj.original_step.is_context_event \/ obj.original_step.normalized_action = "wait"

\* The context branch of validate_single_intent: the intent is kept, with a
\* default text when its own text is empty.
ContextResult(obj, step_index, text) ==
    [cleaned |-> << [step_index |-> step_index,
                     event_type |-> obj.event_type,
                     intent |-> IF text # <<>> THEN text ELSE <<"W", "a", "i", "t", " ", "f", "o", "r", " ", "c", "o", "n", "t", "e", "x", "t", " ", "e", "v", "e", "n", "t">>,
                     selector |-> <<>>,
                     original_step |-> obj.original_step,
                     is_context_event |-> TRUE] >>,
     errors |-> <<>>, warnings |-> <<>>]

\* The action branch of validate_single_intent, text being the trimmed text
\* of the intent and selector its resolved selector.
ActionResult(obj, step_index, text, selector) ==
    IF text = <<>> THEN
        [cleaned |-> <<>>,
         errors |-> << [step |-> step_index, reason |-> "Intent text is empty"] >>,
         warnings |-> <<>>]
    ELSE IF ActionRequiresSelector(obj.event_type)
            /\ (~Truthy(selector) \/ Strip(selector) = <<>>) THEN
        [cleaned |-> <<>>, errors |-> <<>>,
         warnings |-> << [step |-> step_index, reason |-> "Empty selector"] >>]
    ELSE IF ActionRequiresSelector(obj.event_type) /\ ~IsValidCssSelector(selector) THEN
        [cleaned |-> <<>>,
         errors |-> << [step |-> step_index, reason |-> "Malformed CSS selector"] >>,
         warnings |-> <<>>]
    ELSE
        [cleaned |-> << [step_index |-> step_index,
                         event_type |-> obj.event_type,
                         intent |-> text,
                         selector |-> selector,
                         original_step |-> obj.original_step,
                         is_context_event |-> FALSE] >>,
         errors |-> <<>>, warnings |-> <<>>]

\* validate_single_intent(intent_obj, step_index): the accepted intent as a
\* sequence of length one (<<>> when rejected), with the errors and warnings
\* the call leaves in validation_errors and validation_warnings.
ValidateSingleIntent(obj, step_index) ==
    IF IsContextKind(obj)
    THEN ContextResult(obj, step_index, Strip(obj.intent))
    ELSE ActionResult(obj, step_index, Strip(obj.intent),
                      IF Truthy(obj.selector) THEN obj.selector
                      ELSE ExtractStableSelector(obj.original_step.eventElement))

-----------------------------------------------------------------------------
(* Safety gate: deduplication and validate_and_clean_intents                *)

\* A comparison that leaves the selector out.
IsDuplicateIgnoringSelector(current, previous) ==
    /\ current.event_type = previous.event_type
    /\ current.intent = previous.intent

\* A comparison that also asks for neighbouring positions in the input.
IsDuplicateOfAdjacentInput(current, previous) ==
    /\ current.event_type = previous.event_type
    /\ current.selector = previous.selector
    /\ current.intent = previous.intent
    /\ current.step_index = previous.step_index + 1

\* is_duplicate of _deduplicate_consecutive_actions
IsDuplicate(current, previous) ==
    /\ current.event_type = previous.event_type
    /\ current.selector = previous.selector
    /\ current.intent = previous.intent

\* the loop of _deduplicate_consecutive_actions from position i (1-based)
RECURSIVE DedupLoop(_, _, _)
DedupLoop(intents, i, kept) ==
    IF i > Len(intents) THEN kept
    ELSE IF IsDuplicate(intents[i], kept[Len(kept)])
        THEN DedupLoop(intents, i + 1, kept)
        ELSE DedupLoop(intents, i + 1, Append(kept, intents[i]))

\* _deduplicate_consecutive_actions(intents)
DeduplicateConsecutiveActions(intents) ==
    IF intents = <<>> THEN <<>> ELSE DedupLoop(intents, 2, <<intents[1]>>)

\* the warnings the dedup loop appends, one per removed intent
RECURSIVE DedupWarnings(_, _, _)
DedupWarnings(intents, i, last) ==
    IF i > Len(intents) THEN <<>>
    ELSE IF IsDuplicate(intents[i], last)
        THEN << [step |-> intents[i].step_index, reason |-> "Removed duplicate action",
                 same_as |-> last.step_index] >>
             \o DedupWarnings(intents, i + 1, last)
        ELSE DedupWarnings(intents, i + 1, intents[i])

\* What one iteration of the validation loop leaves behind, r being the
\* result of validate_single_intent for the intent at index idx: errors and
\* warnings are reset by every call, so only those of the last call remain.
AfterValidation(acc, r, idx) ==
    [cleaned |-> acc.cleaned \o r.cleaned,
     removed |-> IF r.cleaned # <<>> THEN acc.removed
                 ELSE Append(acc.removed,
                             [idx |-> idx,
                              reason |-> IF r.errors # <<>>
                                         THEN r.errors[Len(r.errors)].reason
                                         ELSE "Unknown error"]),
     errors |-> r.errors,
     warnings |-> r.warnings]

\* the validation loop of validate_and_clean_intents from position i
\* (1-based; the code's idx is i - 1)
RECURSIVE CleanLoop(_, _, _)
CleanLoop(intents, i, acc) ==
    IF i > Len(intents) THEN acc
    ELSE CleanLoop(intents, i + 1,
                   AfterValidation(acc, ValidateSingleIntent(intents[i], i - 1), i - 1))

\* An absolute URL is the triple <<scheme, netloc, rest>>, rest being the
\* path with its query and fragment; the empty string is <<>>.
UrlA == <<"https", "a.test", "/p?q=1">>
UrlB == <<"https", "b.test", "/x">>

\* Intents handed to the gate.  An intent carries its event type, its text,
\* its selector ("" when the producer supplied none) and the step it was
\* generated from.
ActionStep(html) ==
    [is_context_event |-> FALSE, normalized_action |-> "click",
     eventElement |-> html, clean_url |-> <<>>, url |-> UrlA]
ContextStep(action) ==
    [is_context_event |-> TRUE, normalized_action |-> action,
     eventElement |-> <<>>, clean_url |-> UrlA, url |-> <<>>]
MkIntent(event_type, text, selector, step) ==
    [event_type |-> event_type, intent |-> text, selector |-> selector,
     original_step |-> step]

SelA == <<"#", "a">>

IntentPool ==
    { MkIntent("STEPS_FEATURE_CLICK_EVENT", <<"A">>, SelA, ActionStep(<<>>)),
      MkIntent("STEPS_FEATURE_CLICK_EVENT", <<"A">>, <<".", "b">>, ActionStep(<<>>)),
      MkIntent("STEPS_FEATURE_CLICK_EVENT", <<" ", "A", " ">>, SelA, ActionStep(<<>>)),
      MkIntent("STEPS_FEATURE_CLICK_EVENT", <<"B">>, SelA, ActionStep(<<>>)),
      MkIntent("STEPS_FEATURE_CLICK_EVENT", <<" ">>, SelA, ActionStep(<<>>)),
      MkIntent("STEPS_FEATURE_CLICK_EVENT", <<"A">>, <<>>, ActionStep(<<"<", "b", " ", "i", "d", "=", "\"", "g", "\"", ">">>)),
      MkIntent("STEPS_FEATURE_CLICK_EVENT", <<"A">>, <<>>, ActionStep(<<>>)),
      MkIntent("STEPS_FEATURE_CLICK_EVENT", <<"A">>, <<"p", ">">>, ActionStep(<<>>)),
      MkIntent("STEPS_FEATURE_TAB_VISIBLE_EVENT", <<>>, SelA, ContextStep("wait")),
      MkIntent("STEPS_FEATURE_CLICK_EVENT", <<"A">>, <<"p", ">">>, ContextStep("navigate")),
      MkIntent("", <<" ">>, <<>>, [ActionStep(<<>>) EXCEPT !.normalized_action = "wait"]),
      MkIntent("VENDOR_EVENT", <<"A">>, <<>>, ActionStep(<<>>)),
      MkIntent("VENDOR_EVENT", <<"A">>, SelA, ActionStep(<<>>)),
      MkIntent("PREPROCESSED", <<"A">>, <<>>, ActionStep(<<>>)) }

RECURSIVE SeqsOfLen(_, _)
SeqsOfLen(S, n) ==
    IF n = 0 THEN {<<>>}
    ELSE {Append(q, x) : q \in SeqsOfLen(S, n - 1), x \in S}
SeqsUpTo(S, n) == UNION {SeqsOfLen(S, k) : k \in 0..n}

EmptyReport ==
    [total_input_intents |-> 0, total_valid_intents |-> 0, total_after_dedup |-> 0,
     removed_by_validation |-> 0, removed_by_dedup |-> 0,
     removed_steps_details |-> <<>>, validation_errors |-> <<>>,
     validation_warnings |-> <<>>]

\* the report of validate_and_clean_intents
BuildReport(intents, acc, dedup) ==
    [total_input_intents |-> Len(intents),
     total_valid_intents |-> Len(acc.cleaned),
     total_after_dedup |-> Len(dedup),
     removed_by_validation |-> Len(acc.removed),
     removed_by_dedup |-> Len(acc.cleaned) - Len(dedup),
     removed_steps_details |-> acc.removed,
     validation_errors |-> acc.errors,
     validation_warnings |->
        acc.warnings \o
        (IF acc.cleaned = <<>> THEN <<>>
         ELSE DedupWarnings(acc.cleaned, 2, acc.cleaned[1]))]

\* validation done, deduplication and report to come
CleanAndReport(intents, acc) ==
    [cleaned |-> acc.cleaned,
     deduplicated |-> DeduplicateConsecutiveActions(acc.cleaned),
     report |-> BuildReport(intents, acc, DeduplicateConsecutiveActions(acc.cleaned))]

\* validate_and_clean_intents(intents): the returned pair
ValidateAndCleanIntents(intents) ==
    CleanAndReport(intents,
        CleanLoop(intents, 1,
                  [cleaned |-> <<>>, removed |-> <<>>, errors |-> <<>>, warnings |-> <<>>]))

GateIdle ==
    /\ gate_pc = "idle" /\ raw_intents = <<>> /\ cleaned_intents = <<>>
    /\ deduplicated = <<>> /\ report = EmptyReport

GateInit ==
    /\ gate_pc = "ready"
    /\ raw_intents \in SeqsUpTo(IntentPool, MaxIntents)
    /\ cleaned_intents = <<>>
    /\ deduplicated = <<>>
    /\ report = EmptyReport

\* one call of validate_and_clean_intents(raw_intents)
ValidateAndClean ==
    /\ gate_pc = "ready"
    /\ \E r \in {ValidateAndCleanIntents(raw_intents)} :
           /\ cleaned_intents' = r.cleaned
           /\ deduplicated' = r.deduplicated
           /\ report' = r.report
    /\ gate_pc' = "done"
    /\ UNCHANGED raw_intents

-----------------------------------------------------------------------------
(* Intent generation: IntentGenerator._generate_intent_from_preprocessed      *)

\* A normalized step as the preprocessor writes it.  A key the preprocessor
\* does not write (eventElement, eventData, url) reads as the empty string.
NormalizedStep(action, event_type, is_context, role, identifier, value, element_hints, clean_url) ==
    [step_index |-> 0, normalized_action |-> action, element_role |-> role,
     human_identifier |-> identifier, element_hints |-> element_hints, value |-> value,
     clean_url |-> clean_url, original_event_type |-> event_type,
     is_context_event |-> is_context,
     context_type |-> IF is_context THEN event_type ELSE "",
     eventElement |-> <<>>, eventData |-> <<>>, url |-> <<>>]

\* the spelling of a normalized action inside an intent text
ActionName(action) ==
    CASE action = "click" -> <<"c", "l", "i", "c", "k">>
      [] action = "type" -> <<"t", "y", "p", "e">>
      [] action = "select" -> <<"s", "e", "l", "e", "c", "t">>
      [] action = "submit" -> <<"s", "u", "b", "m", "i", "t">>
      [] action = "hover" -> <<"h", "o", "v", "e", "r">>
      [] action = "navigate" -> <<"n", "a", "v", "i", "g", "a", "t", "e">>
      [] action = "wait" -> <<"w", "a", "i", "t">>
      [] OTHER -> <<"u", "n", "k", "n", "o", "w", "n">>

\* intent_template.get(action, f"Perform {action} on {identifier}")
IntentText(action, role, identifier, value) ==
    CASE action = "click" ->
            <<"C", "l", "i", "c", "k", " ", "o", "n", " ">> \o role \o <<":", " ">> \o identifier
      [] action = "type" ->
            <<"T", "y", "p", "e", " ", "'">> \o value \o <<"'", " ", "i", "n", " ">> \o role
            \o <<":", " ">> \o identifier
      [] action = "select" ->
            <<"S", "e", "l", "e", "c", "t", " ", "'">> \o value \o <<"'", " ", "f", "r", "o", "m", " ">> \o role
            \o <<":", " ">> \o identifier
      [] action = "submit" ->
            <<"S", "u", "b", "m", "i", "t", " ">> \o role \o <<":", " ">> \o identifier
      [] action = "hover" ->
            <<"H", "o", "v", "e", "r", " ", "o", "v", "e", "r", " ">> \o role \o <<":", " ">> \o identifier
      [] action = "navigate" ->
            <<"N", "a", "v", "i", "g", "a", "t", "e", " ", "t", "o", " ">> \o identifier
      [] OTHER ->
            <<"P", "e", "r", "f", "o", "r", "m", " ">> \o ActionName(action) \o <<" ", "o", "n", " ">> \o identifier

\* _generate_intent_from_preprocessed(step)
GenerateIntentFromPreprocessed(step) ==
    [step_index |-> step.step_index,
     event_type |-> step.original_event_type,
     intent |-> IntentText(step.normalized_action, step.element_role,
                           step.human_identifier, step.value),
     action |-> step.normalized_action,
     element_role |-> step.element_role,
     human_identifier |-> step.human_identifier,
     value |-> step.value,
     selector |-> BuildSelectorFromHints(step.element_hints),
     original_step |-> step]

\* generate_intents_for_all_steps(steps): one raw intent per step, then the
\* safety gate; the intents returned are the deduplicated ones
GenerateIntentsForAllSteps(steps) ==
    ValidateAndCleanIntents(
        [i \in DOMAIN steps |-> GenerateIntentFromPreprocessed(steps[i])]).deduplicated

HintsWith(id, name, tag) ==
    [id |-> id, class |-> <<>>, name |-> name, test_id |-> <<>>,
     aria_label |-> <<>>, tag |-> tag]

ContextHints == HintsWith(<<>>, <<>>, <<"c", "o", "n", "t", "e", "x", "t">>)

RoleContext == <<"c", "o", "n", "t", "e", "x", "t", "_", "e", "v", "e", "n", "t">>

\* Normalized steps of a recording: a click on an element with an id, a click
\* on an element that has nothing but a tag, typing into a named field, a
\* navigation, a tab-visibility event, a click on a link whose visible text
\* is "Navigate home", typing the word "click" and an event recorded without
\* a type.
StepPool ==
    { NormalizedStep("click", "STEPS_FEATURE_CLICK_EVENT", FALSE, <<"b", "u", "t", "t", "o", "n">>,
                     <<"G", "o">>, <<>>, HintsWith(<<"g">>, <<>>, <<"b", "u", "t", "t", "o", "n">>), UrlA),
      NormalizedStep("click", "STEPS_FEATURE_CLICK_EVENT", FALSE, <<"b", "u", "t", "t", "o", "n">>,
                     <<"G", "o">>, <<>>, HintsWith(<<>>, <<>>, <<"d", "i", "v">>), UrlA),
      NormalizedStep("type", "STEPS_FEATURE_TYPE_EVENT", FALSE, <<"t", "e", "x", "t", "b", "o", "x">>,
                     <<"q">>, <<"x">>, HintsWith(<<>>, <<"q">>, <<"i", "n", "p", "u", "t">>), UrlA),
      NormalizedStep("navigate", "STEPS_FEATURE_NAVIGATE_EVENT", TRUE, RoleContext,
                     <<"P", "a", "g", "e", " ", "n", "a", "v", "i", "g", "a", "t", "i", "o", "n">>, <<>>, ContextHints, UrlB),
      NormalizedStep("wait", "STEPS_FEATURE_TAB_VISIBLE_EVENT", TRUE, RoleContext,
                     <<"T", "a", "b", " ", "v", "i", "s", "i", "b", "i", "l", "i", "t", "y", " ", "c", "h", "e", "c", "k">>, <<>>, ContextHints, UrlA),
      NormalizedStep("click", "STEPS_FEATURE_CLICK_EVENT", FALSE, <<"l", "i", "n", "k">>,
                     <<"N", "a", "v", "i", "g", "a", "t", "e", " ", "h", "o", "m", "e">>, <<>>, HintsWith(<<"h">>, <<>>, <<"a">>), UrlA),
      NormalizedStep("type", "STEPS_FEATURE_TYPE_EVENT", FALSE, <<"t", "e", "x", "t", "b", "o", "x">>,
                     <<"q">>, <<"c", "l", "i", "c", "k">>, HintsWith(<<>>, <<"q">>, <<"i", "n", "p", "u", "t">>), UrlA),
      NormalizedStep("wait", "", TRUE, RoleContext,
                     <<"C", "o", "n", "t", "e", "x", "t", " ", "e", "v", "e", "n", "t">>, <<>>, ContextHints, UrlA) }

\* Steps that a recording repeats with a different effect: a navigation to
\* each of two pages and the choice of each of two options of one dropdown.
RepeatedSteps ==
    { NormalizedStep("navigate", "STEPS_FEATURE_NAVIGATE_EVENT", TRUE, RoleContext,
                     <<"P", "a", "g", "e", " ", "n", "a", "v", "i", "g", "a", "t", "i", "o", "n">>, <<>>, ContextHints, u) :
        u \in {UrlA, UrlB} }
    \cup
    { NormalizedStep("select", "STEPS_FEATURE_CHANGE_EVENT", FALSE, <<"d", "r", "o", "p", "d", "o", "w", "n">>,
                     v, v, HintsWith(<<"s">>, <<>>, <<"s", "e", "l", "e", "c", "t">>), UrlA) :
        v \in {<<"x">>, <<"y">>} }

\* The recordings of the steps file: the sequences over StepPool and the
\* pairs of repeated steps.
Recordings == SeqsUpTo(StepPool, MaxSteps) \cup {<<x, y>> : x, y \in RepeatedSteps}

-----------------------------------------------------------------------------
(* Lowering of intents to script nodes: ASTConverter                         *)

DefaultWaitTime == 5000
ContextWaitTime == 2000

\* PlaywrightAST(action_type, selector, value, url, wait_time); a selector
\* that was never set is NoSelector, a URL or value that was never set is <<>>.
Node(action_type, selector, url, value, wait_time) ==
    [action_type |-> action_type, selector |-> selector, url |-> url,
     value |-> value, wait_time |-> wait_time]

\* original_step.get("clean_url") or original_step.get("url")
StepUrl(step) == IF step.clean_url # <<>> THEN step.clean_url ELSE step.url

\* _is_intent_safe_for_ast(intent_obj)
IsIntentSafeForAst(obj) ==
    /\ Strip(obj.intent) # <<>>
    /\ obj.event_type # ""
    /\ Truthy(obj.selector) =>
          /\ Strip(obj.selector) # <<>>
          /\ IsValidCssSelector(obj.selector)

\* the position after the whitespace that starts at position i (1-based)
AfterSpaces(s, i) ==
    CHOOSE j \in i..(Len(s) + 1) :
        /\ j = Len(s) + 1 \/ ~IsSpace(s[j])
        /\ \A k \in i..(j - 1) : IsSpace(s[k])

\* the longest run of \w characters that starts at position j
WordFrom(s, j) ==
    LET ends == {e \in j..Len(s) : \A k \in j..e : IsWordChar(s[k])}
    IN  IF ends = {} THEN <<>>
        ELSE SubSeq(s, j, CHOOSE e \in ends : \A f \in ends : f <= e)

KeyAction == <<"a", "c", "t", "i", "o", "n", ":">>

\* re.search(r"action:\s*(\w+)", s).group(1), <<>> when there is no match
ActionMarker(s) ==
    LET hits == {p \in 0..(Len(s) - Len(KeyAction)) :
                    /\ \A k \in 1..Len(KeyAction) : s[p + k] = KeyAction[k]
                    /\ WordFrom(s, AfterSpaces(s, p + Len(KeyAction) + 1)) # <<>>}
    IN  IF hits = {} THEN <<>>
        ELSE WordFrom(s, AfterSpaces(s,
                (CHOOSE p \in hits : \A q \in hits : p <= q) + Len(KeyAction) + 1))

\* action_map of _determine_action_type; "none" for a word that is not a key
ActionMap(word) ==
    CASE word = <<"c", "l", "i", "c", "k">> -> "click"
      [] word = <<"t", "y", "p", "e">> -> "fill"
      [] word = <<"f", "i", "l", "l">> -> "fill"
      [] word = <<"s", "e", "l", "e", "c", "t">> -> "select"
      [] word = <<"n", "a", "v", "i", "g", "a", "t", "e">> -> "navigate"
      [] word = <<"w", "a", "i", "t">> -> "wait"
      [] word = <<"s", "c", "r", "o", "l", "l">> -> "scroll"
      [] word = <<"h", "o", "v", "e", "r">> -> "hover"
      [] word = <<"s", "u", "b", "m", "i", "t">> -> "click"
      [] OTHER -> "none"

\* the fallback pattern matching of _determine_action_type.  Event types are
\* atomic, so "tab_visible" in event_type.lower() and "click_event" in
\* event_type.lower() are tests against the types that contain them.
ActionTypeByKeyword(text, event_type) ==
    IF Contains(text, <<"n", "a", "v", "i", "g", "a", "t", "e">>) \/ (event_type \in {"STEPS_FEATURE_TAB_VISIBLE_EVENT"}) \/ Contains(text, <<"g", "o", " ", "t", "o">>)
        THEN "navigate"
    ELSE IF Contains(text, <<"c", "l", "i", "c", "k">>) \/ (event_type \in {"STEPS_FEATURE_CLICK_EVENT"}) THEN "click"
    ELSE IF Contains(text, <<"t", "y", "p", "e">>) \/ Contains(text, <<"f", "i", "l", "l">>) \/ Contains(text, <<"i", "n", "p", "u", "t">>)
        THEN "fill"
    ELSE IF Contains(text, <<"s", "e", "l", "e", "c", "t">>) \/ Contains(text, <<"c", "h", "o", "o", "s", "e">>) THEN "select"
    ELSE IF Contains(text, <<"w", "a", "i", "t">>) THEN "wait"
    ELSE IF Contains(text, <<"s", "c", "r", "o", "l", "l">>) THEN "scroll"
    ELSE IF Contains(text, <<"h", "o", "v", "e", "r">>) THEN "hover"
    ELSE IF Contains(text, <<"p", "r", "e", "s", "s">>) THEN "press"
    ELSE "click"

\* the action named by an "action:" marker, else the one found by keyword
MarkedOrKeyword(marked, text, event_type) ==
    IF marked # "none" THEN marked ELSE ActionTypeByKeyword(text, event_type)

\* _determine_action_type(intent, event_type)
DetermineActionType(intent, event_type) ==
    MarkedOrKeyword(ActionMap(ActionMarker(Lower(intent))), Lower(intent), event_type)

\* element_html[1:tag_end].strip(), tag_end the first blank, else the first ">"
HtmlTag(html) ==
    Strip(Slice(html, 1, IF Find(html, <<" ">>, 0) # -1 THEN Find(html, <<" ">>, 0)
                         ELSE Find(html, <<">">>, 0)))

\* the name branch of _extract_selector: tag[name="..."]
NamedTag(html, v) ==
    IF HasText(v) THEN HtmlTag(html) \o <<"[">> \o KeyName \o v \o <<"\"", "]">>
    ELSE <<>>
NameBranch(html) ==
    IF Contains(html, KeyName) THEN NamedTag(html, AttrAfter(html, KeyName)) ELSE <<>>

\* _extract_selector(step), step.eventElement = html
ExtractSelector(html) ==
    IF html = <<>> THEN NoSelector
    ELSE FirstReturned(<<
            AttrBranch(html, <<"i", "d", "=", "\"">>, <<"#">>, <<>>),
            ClassBranch(html),
            AttrBranch(html, <<"p", "l", "a", "c", "e", "h", "o", "l", "d", "e", "r", "=", "\"">>, <<"[">> \o <<"p", "l", "a", "c", "e", "h", "o", "l", "d", "e", "r", "=", "\"">>, <<"\"", "]">>),
            NameBranch(html),
            (IF HtmlTag(html) # <<>> THEN HtmlTag(html) ELSE <<"d", "i", "v">>) >>)

\* A context node whose wait keeps the default wait time of a node.
ContextNodeDefaultWait(step) ==
    IF \/ step.normalized_action = "navigate"
       \/ step.context_type \in {"navigation", "Navigation", "NAVIGATION"}
    THEN Node("navigate", NoSelector, StepUrl(step), <<>>, DefaultWaitTime)
    ELSE Node("wait", NoSelector, step.url, <<>>, DefaultWaitTime)

\* the node of a context intent: a navigation when normalized_action is
\* "navigate" or the context type spells "navigation"
ContextNode(step) ==
    IF \/ step.normalized_action = "navigate"
       \/ step.context_type \in {"navigation", "Navigation", "NAVIGATION"}
    THEN Node("navigate", NoSelector, StepUrl(step), <<>>, DefaultWaitTime)
    ELSE Node("wait", NoSelector, step.url, <<>>, ContextWaitTime)

\* A node built from the resolved selector without the sanity check.
ActionNodeUnchecked(obj, selector) ==
    << Node(DetermineActionType(obj.intent, obj.event_type), selector,
            obj.original_step.url, obj.original_step.eventData,
            DefaultWaitTime) >>

\* the node of an action intent whose selector has been resolved, <<>> when
\* the selector fails the sanity check
ActionNode(obj, selector) ==
    IF Truthy(selector) /\ ~IsValidCssSelector(selector) THEN <<>>
    ELSE << Node(DetermineActionType(obj.intent, obj.event_type), selector,
                 obj.original_step.url, obj.original_step.eventData,
                 DefaultWaitTime) >>

\* convert_intent_to_ast(intent_obj, step_data): the node as a sequence of
\* length one, <<>> when no node is built
ConvertIntentToAst(obj) ==
    IF ~IsIntentSafeForAst(obj) THEN <<>>
    ELSE IF obj.is_context_event THEN <<ContextNode(obj.original_step)>>
    ELSE ActionNode(obj, IF Truthy(obj.selector) THEN obj.selector
                         ELSE ExtractSelector(obj.original_step.eventElement))

\* convert_all_intents_to_ast(intents) from position i (1-based)
RECURSIVE ConvertAllIntentsToAst(_, _)
ConvertAllIntentsToAst(intents, i) ==
    IF i > Len(intents) THEN <<>>
    ELSE ConvertIntentToAst(intents[i]) \o ConvertAllIntentsToAst(intents, i + 1)

-----------------------------------------------------------------------------
(* Code emitter: JavaScriptCodeGenerator                                    *)

interactive_action_types == {"click", "fill", "select", "hover"}

SelItem == <<".", "i">>

\* Nodes handed to the emitter: a click and a fill node on .i, a click node
\* on #g, a scroll node that carries .i, a navigate node, a wait node and a
\* click node whose selector is empty.
NodePool ==
    { Node("click", SelItem, UrlA, <<>>, DefaultWaitTime),
      Node("fill", SelItem, <<>>, <<>>, DefaultWaitTime),
      Node("scroll", SelItem, UrlA, <<>>, DefaultWaitTime),
      Node("click", <<"#", "g">>, <<>>, <<>>, DefaultWaitTime),
      Node("navigate", NoSelector, UrlB, <<>>, DefaultWaitTime),
      Node("wait", NoSelector, <<>>, <<>>, DefaultWaitTime),
      Node("click", <<>>, <<>>, <<>>, DefaultWaitTime) }

\* Nodes the safety checks of the emitter reject: a navigate node without a
\* URL, a click node whose selector ends in ">", a fill node whose selector
\* is blank
UnsafeNodePool ==
    { Node("navigate", NoSelector, <<>>, <<>>, DefaultWaitTime),
      Node("click", <<"p", ">">>, <<>>, <<>>, DefaultWaitTime),
      Node("fill", <<" ">>, <<>>, <<"v">>, DefaultWaitTime) }

\* re.search('[{}()>]$', s): "$" also matches before a final newline
EndsInvalidBeforeNewline(s) ==
    \/ EndsInvalid(s)
    \/ Len(s) >= 2 /\ s[Len(s)] = "\n" /\ s[Len(s) - 1] \in InvalidEdgeChars

\* _is_valid_selector(selector): the selector is examined as it is, untrimmed
IsValidSelector(selector) ==
    /\ Truthy(selector)
    /\ ~StartsInvalid(selector)
    /\ ~EndsInvalidBeforeNewline(selector)
    /\ ~HtmlBrackets(selector)
    /\ ~ElementThenChild(selector)

\* _is_node_safe_for_codegen(node, step_idx)
IsNodeSafeForCodegen(node) ==
    IF node.action_type = "wait" THEN TRUE
    ELSE IF node.action_type \in interactive_action_types
        THEN /\ Truthy(node.selector)
             /\ Strip(node.selector) # <<>>
             /\ IsValidSelector(node.selector)
    ELSE IF node.action_type = "navigate" THEN node.url # <<>>
    ELSE TRUE

\* the error _is_node_safe_for_codegen records for an unsafe node
SafetyError(node, step_idx) ==
    IF node.action_type \in interactive_action_types
    THEN IF ~Truthy(node.selector) \/ Strip(node.selector) = <<>>
         THEN [step |-> step_idx, reason |-> "Missing selector"]
         ELSE [step |-> step_idx, reason |-> "Malformed selector"]
    ELSE [step |-> step_idx, reason |-> "Missing URL for navigate action"]

\* _validate_all_nodes_before_codegen(ast_nodes): the nodes kept, in order
RECURSIVE ValidateAllNodesBeforeCodegen(_, _)
ValidateAllNodesBeforeCodegen(nodes, i) ==
    IF i > Len(nodes) THEN <<>>
    ELSE (IF IsNodeSafeForCodegen(nodes[i]) THEN <<nodes[i]>> ELSE <<>>)
         \o ValidateAllNodesBeforeCodegen(nodes, i + 1)

\* the errors the safety checks append to code_errors, in node order
RECURSIVE SafetyErrors(_, _)
SafetyErrors(nodes, i) ==
    IF i > Len(nodes) THEN <<>>
    ELSE (IF IsNodeSafeForCodegen(nodes[i]) THEN <<>>
          ELSE <<SafetyError(nodes[i], i - 1)>>)
         \o SafetyErrors(nodes, i + 1)

\* A usage analysis that counts every node that carries a selector.
AnalyzeSelectorUsageOfAllNodes(nodes) ==
    LET counted == {i \in DOMAIN nodes : Truthy(nodes[i].selector)}
    IN  [sel \in {nodes[i].selector : i \in counted} |->
            Cardinality({i \in counted : nodes[i].selector = sel})]

\* _analyze_selector_usage(ast_nodes): selector_usage_count
AnalyzeSelectorUsage(nodes) ==
    LET counted == {i \in DOMAIN nodes :
                       /\ Truthy(nodes[i].selector)
                       /\ nodes[i].action_type \in interactive_action_types}
    IN  [sel \in {nodes[i].selector : i \in counted} |->
            Cardinality({i \in counted : nodes[i].selector = sel})]

\* dict.get(key, default)
Get(table, key, default) == IF key \in DOMAIN table THEN table[key] ELSE default

\* urlparse(url): f"{parsed.scheme}://{parsed.netloc}"
BaseOf(url) == <<url[1], url[2]>>

PlaceholderUrl == <<"https", "www.example.com">>

\* _extract_base_url_from_intents(intents), None being <<>>
ExtractBaseUrlFromIntents(intents) ==
    IF intents = <<>> THEN <<>>
    ELSE IF StepUrl(intents[1].original_step) # <<>>
        THEN BaseOf(StepUrl(intents[1].original_step))
    ELSE <<>>

\* _extract_base_url_from_ast(ast_nodes): the first node that has a URL
ExtractBaseUrlFromAst(nodes) ==
    LET with_url == {i \in DOMAIN nodes : nodes[i].url # <<>>}
    IN  IF with_url = {} THEN <<>>
        ELSE BaseOf(nodes[CHOOSE i \in with_url : \A j \in with_url : i <= j].url)

\* the first of the candidates that is not empty ("a or b or c or d")
FirstTruthy(candidates) ==
    candidates[CHOOSE i \in DOMAIN candidates :
                  /\ candidates[i] # <<>>
                  /\ \A j \in 1..(i - 1) : candidates[j] = <<>>]

\* base_url of generate_code_from_ast
BaseUrl(override, intents, nodes) ==
    FirstTruthy(<< override, ExtractBaseUrlFromIntents(intents),
                   ExtractBaseUrlFromAst(nodes), PlaceholderUrl >>)

\* the URL of the first navigate node, <<>> when there is none
FirstNavigateUrl(nodes) ==
    LET navs == {i \in DOMAIN nodes : nodes[i].action_type = "navigate"}
    IN  IF navs = {} THEN <<>>
        ELSE nodes[CHOOSE i \in navs : \A j \in navs : i <= j].url

\* _generate_initial_navigation_block(ast_nodes, base_url): the URL it loads
InitialNavigationUrl(nodes, base_url) ==
    IF base_url # <<>> THEN base_url
    ELSE IF FirstNavigateUrl(nodes) # <<>> THEN FirstNavigateUrl(nodes)
    ELSE PlaceholderUrl

\* _get_locator_with_occurrence(selector, occurrence): "first" is .first(),
\* "nth" is .nth(index), "body" is page.locator('body')
GetLocatorWithOccurrence(usage, selector, occurrence) ==
    IF ~Truthy(selector) THEN [ref |-> "body", index |-> 0]
    ELSE IF Get(usage, selector, 1) > 1 THEN [ref |-> "nth", index |-> occurrence]
    ELSE [ref |-> "first", index |-> 0]

\* A block of the script: what it does, the step index printed in it, the
\* element reference it uses and the URL it loads.
Block(kind, step_index, selector, locator, url) ==
    [kind |-> kind, step |-> step_index, selector |-> selector,
     ref |-> locator.ref, index |-> locator.index, url |-> url]

NoLocator == [ref |-> "none", index |-> 0]

\* _generate_action(node, step_index, occurrence)
GenerateAction(usage, node, step_index, occurrence) ==
    IF node.action_type = "navigate"
    THEN Block("navigate", step_index, NoSelector, NoLocator, node.url)
    ELSE IF node.action_type \in interactive_action_types
    THEN Block(node.action_type, step_index, node.selector,
               GetLocatorWithOccurrence(usage, node.selector, occurrence), <<>>)
    ELSE Block(node.action_type, step_index, NoSelector, NoLocator, <<>>)

\* the initial navigation block
InitialBlock(url) == Block("initial", -1, NoSelector, NoLocator, url)

EmptyCounts == [sel \in {} |-> 0]

\* the occurrence index handed to _generate_action for the node
Occurrence(counter, node) ==
    IF Truthy(node.selector) THEN Get(counter, node.selector, 0) ELSE 0

\* selector_occurrence_counter after the node has been counted
Counted(counter, node) ==
    IF Truthy(node.selector)
    THEN [sel \in DOMAIN counter \cup {node.selector} |->
             IF sel = node.selector THEN Get(counter, sel, 0) + 1 ELSE counter[sel]]
    ELSE counter

\* An iteration that leaves out every navigate node.
EmitStepSkipEveryNavigate(usage, st, node, idx) ==
    IF node.action_type = "navigate"
    THEN [st EXCEPT !.skip_first_navigate = FALSE]
    ELSE [selector_occurrence_counter |-> Counted(st.selector_occurrence_counter, node),
          skip_first_navigate |-> st.skip_first_navigate,
          blocks |-> Append(st.blocks,
                        GenerateAction(usage, node, idx,
                            Occurrence(st.selector_occurrence_counter, node)))]

\* One iteration of the loop over safe_nodes, st holding the counter, the
\* skip flag and the blocks emitted so far; idx is the 0-based node index.
EmitStep(usage, st, node, idx) ==
    IF st.skip_first_navigate /\ node.action_type = "navigate"
    THEN [st EXCEPT !.skip_first_navigate = FALSE]
    ELSE [selector_occurrence_counter |-> Counted(st.selector_occurrence_counter, node),
          skip_first_navigate |-> st.skip_first_navigate,
          blocks |-> Append(st.blocks,
                        GenerateAction(usage, node, idx,
                            Occurrence(st.selector_occurrence_counter, node)))]

\* the loop over safe_nodes from position i (1-based)
RECURSIVE EmitLoop(_, _, _, _)
EmitLoop(usage, nodes, i, st) ==
    IF i > Len(nodes) THEN st
    ELSE EmitLoop(usage, nodes, i + 1, EmitStep(usage, st, nodes[i], i - 1))

\* generate_code_from_ast once the nodes have passed the safety checks
EmitSafeNodes(safe, intents, override) ==
    IF safe = <<>> THEN <<>>
    ELSE EmitLoop(AnalyzeSelectorUsage(safe), safe, 1,
            [selector_occurrence_counter |-> EmptyCounts,
             skip_first_navigate |-> TRUE,
             blocks |-> << InitialBlock(
                 InitialNavigationUrl(safe, BaseUrl(override, intents, safe))) >>]).blocks

\* generate_code_from_ast(ast_nodes, intents, first_url): the blocks of the
\* script, <<>> when it returns the empty string
GenerateCodeFromAst(nodes, intents, override) ==
    IF nodes = <<>> THEN <<>>
    ELSE EmitSafeNodes(ValidateAllNodesBeforeCodegen(nodes, 1), intents, override)

EmitIdle ==
    /\ emit_pc = "idle" /\ ast_nodes = <<>> /\ emit_intents = <<>>
    /\ first_url = <<>> /\ safe_nodes = <<>>
    /\ selector_usage_count = EmptyCounts
    /\ selector_occurrence_counter = EmptyCounts
    /\ skip_first_navigate = TRUE /\ emit_idx = 0 /\ initial_url = <<>>
    /\ blocks = <<>> /\ generated_code = <<>> /\ code_errors = <<>>

\* the arguments of one call of generate_code_from_ast on a new generator
EmitInit ==
    /\ emit_pc = "ready"
    /\ ast_nodes \in SeqsUpTo(NodePool, MaxNodes)
                    \cup {<<x>> : x \in UnsafeNodePool}
                    \cup {<<x, y>> : x \in UnsafeNodePool, y \in NodePool \cup UnsafeNodePool}
    /\ emit_intents \in {<<>>, <<MkIntent("PREPROCESSED", <<"A">>, SelA, ContextStep("wait"))>>}
    /\ first_url \in {<<>>, <<"https", "c.test", "/start">>}
    /\ safe_nodes = <<>>
    /\ selector_usage_count = EmptyCounts
    /\ selector_occurrence_counter = EmptyCounts
    /\ skip_first_navigate = TRUE /\ emit_idx = 0 /\ initial_url = <<>>
    /\ blocks = <<>> /\ generated_code = <<>> /\ code_errors = <<>>

\* generate_code_from_ast up to the loop: the safety checks, the usage
\* analysis and the initial navigation block
BeginEmission ==
    /\ emit_pc = "ready"
    /\ \E safe \in {ValidateAllNodesBeforeCodegen(ast_nodes, 1)} :
          IF ast_nodes = <<>> THEN
              /\ emit_pc' = "done"
              /\ UNCHANGED <<safe_nodes, selector_usage_count, initial_url,
                             blocks, code_errors>>
          ELSE IF safe = <<>> THEN
              /\ emit_pc' = "done"
              /\ code_errors' = code_errors \o SafetyErrors(ast_nodes, 1) \o
                    << [step |-> -1,
                        reason |-> "No valid AST nodes passed safety checks"] >>
              /\ UNCHANGED <<safe_nodes, selector_usage_count, initial_url, blocks>>
          ELSE
              /\ emit_pc' = "emitting"
              /\ safe_nodes' = safe
              /\ code_errors' = code_errors \o SafetyErrors(ast_nodes, 1)
              /\ selector_usage_count' = AnalyzeSelectorUsage(safe)
              /\ initial_url' =
                    InitialNavigationUrl(safe, BaseUrl(first_url, emit_intents, safe))
              /\ blocks' = <<InitialBlock(initial_url')>>
    /\ UNCHANGED <<ast_nodes, emit_intents, first_url, selector_occurrence_counter,
                   skip_first_navigate, emit_idx, generated_code>>

\* one iteration of the loop over safe_nodes
EmitNode ==
    /\ emit_pc = "emitting"
    /\ emit_idx < Len(safe_nodes)
    /\ \E st \in {EmitStep(selector_usage_count,
                           [selector_occurrence_counter |-> selector_occurrence_counter,
                            skip_first_navigate |-> skip_first_navigate,
                            blocks |-> blocks],
                           safe_nodes[emit_idx + 1], emit_idx)} :
          /\ selector_occurrence_counter' = st.selector_occurrence_counter
          /\ skip_first_navigate' = st.skip_first_navigate
          /\ blocks' = st.blocks
    /\ emit_idx' = emit_idx + 1
    /\ UNCHANGED <<emit_pc, ast_nodes, emit_intents, first_url, safe_nodes,
                   selector_usage_count, initial_url, generated_code, code_errors>>

\* the footer: the script text is complete
FinishEmission ==
    /\ emit_pc = "emitting"
    /\ emit_idx = Len(safe_nodes)
    /\ emit_pc' = "done"
    /\ generated_code' = blocks
    /\ UNCHANGED <<ast_nodes, emit_intents, first_url, safe_nodes,
                   selector_usage_count, selector_occurrence_counter,
                   skip_first_navigate, emit_idx, initial_url, blocks, code_errors>>

-----------------------------------------------------------------------------
(* Orchestrator: PlaywrightScriptGenerator.run_pipeline                     *)

\* validate_ast_sync(ast_nodes): the live-page check returns the sequence,
\* possibly filtered: any subsequence of the nodes, in their order
ValidateAstSync(nodes) ==
    { [i \in 1..Cardinality(keep) |->
          nodes[CHOOSE k \in keep : Cardinality({j \in keep : j <= k}) = i]] :
      keep \in SUBSET DOMAIN nodes }

\* JavaScriptCodeTester.test_code(code): the result for a list of errors
AuditResult(errors) ==
    [total_errors |-> Len(errors), errors |-> errors,
     status |-> IF Len(errors) = 0 THEN "PASS" ELSE "FAIL"]

\* The text-level checks of the audit read the script text, which the blocks
\* do not determine: either error list can come out.
AuditOutcomes == {<<>>, <<"Unbalanced parentheses">>}

\* A failed summary that takes its status the way get_summary does.
FailedSummaryWithRunStatus(reason) ==
    [pipeline_status |-> IF run_test_results = <<>> THEN "SUCCESS"
                         ELSE IF run_test_results[1].status = "PASS" THEN "SUCCESS"
                         ELSE "FAILED",
     failure_reason |-> reason,
     steps_processed |-> Len(run_steps),
     intents_generated |-> Len(run_intents),
     ast_nodes_created |-> Len(run_nodes),
     code_lines |-> 0, js_code_errors |-> 0, test_status |-> "SKIPPED"]

\* _get_failed_summary(reason)
FailedSummary(reason) ==
    [pipeline_status |-> "ABORTED",
     failure_reason |-> reason,
     steps_processed |-> Len(run_steps),
     intents_generated |-> Len(run_intents),
     ast_nodes_created |-> Len(run_nodes),
     code_lines |-> 0, js_code_errors |-> 0, test_status |-> "SKIPPED"]

\* A summary that treats a failed audit as fatal.
GetSummaryAuditFatal ==
    [pipeline_status |-> IF run_test_results = <<>> THEN "SUCCESS"
                         ELSE IF run_test_results[1].status = "PASS" THEN "SUCCESS"
                         ELSE "ABORTED",
     steps_processed |-> Len(run_steps),
     intents_generated |-> Len(run_intents),
     ast_nodes_created |-> Len(run_nodes),
     code_lines |-> Len(run_code),
     js_code_errors |-> IF run_test_results = <<>> THEN 0
                        ELSE run_test_results[1].total_errors,
     test_status |-> IF run_test_results = <<>> THEN "UNKNOWN"
                     ELSE run_test_results[1].status]

\* get_summary(); code_lines counts the blocks of the script
GetSummary ==
    [pipeline_status |-> IF run_test_results = <<>> THEN "SUCCESS"
                         ELSE IF run_test_results[1].status = "PASS" THEN "SUCCESS"
                         ELSE "FAILED",
     steps_processed |-> Len(run_steps),
     intents_generated |-> Len(run_intents),
     ast_nodes_created |-> Len(run_nodes),
     code_lines |-> Len(run_code),
     js_code_errors |-> IF run_test_results = <<>> THEN 0
                        ELSE run_test_results[1].total_errors,
     test_status |-> IF run_test_results = <<>> THEN "UNKNOWN"
                     ELSE run_test_results[1].status]

\* main(): the exit status of the command-line run for the summary that
\* run_pipeline returned; sys.exit(1) only for the aborted status
ExitStatus(summary) == IF summary.pipeline_status = "ABORTED" THEN 1 ELSE 0

RunIdle ==
    /\ run_pc = "idle"
    /\ run_options = [save_intermediates |-> TRUE, validate_dom |-> TRUE]
    /\ run_preprocessed = <<>> /\ run_steps = <<>> /\ run_intents = <<>>
    /\ run_nodes = <<>> /\ run_code = <<>> /\ run_codegen_calls = 0
    /\ run_saved = FALSE /\ run_test_results = <<>> /\ run_summary = <<>>

\* a new PlaywrightScriptGenerator and the arguments of run_pipeline
RunInit ==
    /\ run_pc = "start"
    /\ run_options \in [save_intermediates : BOOLEAN, validate_dom : BOOLEAN]
    /\ run_preprocessed = <<>> /\ run_steps = <<>> /\ run_intents = <<>>
    /\ run_nodes = <<>> /\ run_code = <<>> /\ run_codegen_calls = 0
    /\ run_saved = FALSE /\ run_test_results = <<>> /\ run_summary = <<>>

\* preprocess_steps(): the normalized steps of the recording in the steps file
PreprocessSteps ==
    /\ run_pc = "start"
    /\ run_pc' = "preprocessed"
    /\ \E recording \in Recordings :
          run_preprocessed' = ([i \in DOMAIN recording |-> [recording[i] EXCEPT !.step_index = i - 1]])
    /\ UNCHANGED <<run_options, run_steps, run_intents, run_nodes, run_code,
                   run_codegen_calls, run_saved, run_test_results, run_summary>>

\* load_and_chunk_steps()
LoadAndChunkSteps ==
    /\ run_pc = "preprocessed"
    /\ run_pc' = "loaded"
    /\ run_steps' = run_preprocessed
    /\ UNCHANGED <<run_options, run_preprocessed, run_intents, run_nodes, run_code,
                   run_codegen_calls, run_saved, run_test_results, run_summary>>

\* generate_intents()
GenerateIntents ==
    /\ run_pc = "loaded"
    /\ run_pc' = "intents"
    /\ run_intents' = GenerateIntentsForAllSteps(run_steps)
    /\ UNCHANGED <<run_options, run_preprocessed, run_steps, run_nodes, run_code,
                   run_codegen_calls, run_saved, run_test_results, run_summary>>

\* "if len(self.intents) == 0: return self._get_failed_summary(...)"
AbortNoIntents ==
    /\ run_pc = "intents" /\ run_intents = <<>>
    /\ run_pc' = "returned"
    /\ run_summary' = <<FailedSummary("No valid intents after validation")>>
    /\ UNCHANGED <<run_options, run_preprocessed, run_steps, run_intents, run_nodes,
                   run_code, run_codegen_calls, run_saved, run_test_results>>

\* convert_to_ast()
ConvertToAst ==
    /\ run_pc = "intents" /\ run_intents # <<>>
    /\ run_pc' = "ast"
    /\ run_nodes' = ConvertAllIntentsToAst(run_intents, 1)
    /\ UNCHANGED <<run_options, run_preprocessed, run_steps, run_intents, run_code,
                   run_codegen_calls, run_saved, run_test_results, run_summary>>

\* "if len(self.ast_nodes) == 0: return self._get_failed_summary(...)"
AbortNoNodes ==
    /\ run_pc = "ast" /\ run_nodes = <<>>
    /\ run_pc' = "returned"
    /\ run_summary' = <<FailedSummary("No valid AST nodes after conversion")>>
    /\ UNCHANGED <<run_options, run_preprocessed, run_steps, run_intents, run_nodes,
                   run_code, run_codegen_calls, run_saved, run_test_results>>

\* "if validate_dom: self.validate_ast_with_dom()"
ValidateAstWithDom ==
    /\ run_pc = "ast" /\ run_nodes # <<>>
    /\ run_pc' = "validated"
    /\ IF run_options.validate_dom
       THEN run_nodes' \in ValidateAstSync(run_nodes)
       ELSE run_nodes' = run_nodes
    /\ UNCHANGED <<run_options, run_preprocessed, run_steps, run_intents, run_code,
                   run_codegen_calls, run_saved, run_test_results, run_summary>>

\* generate_code(): the emitter is called only when there are nodes
GenerateCode ==
    /\ run_pc = "validated"
    /\ run_pc' = "code"
    /\ IF run_nodes = <<>>
       THEN run_code' = <<>> /\ UNCHANGED run_codegen_calls
       ELSE /\ run_code' = GenerateCodeFromAst(run_nodes, run_intents, <<>>)
            /\ run_codegen_calls' = run_codegen_calls + 1
    /\ UNCHANGED <<run_options, run_preprocessed, run_steps, run_intents, run_nodes,
                   run_saved, run_test_results, run_summary>>

\* "if not self.generated_code ...: return self._get_failed_summary(...)"
AbortNoCode ==
    /\ run_pc = "code" /\ run_code = <<>>
    /\ run_pc' = "returned"
    /\ run_summary' = <<FailedSummary("Code generation failed")>>
    /\ UNCHANGED <<run_options, run_preprocessed, run_steps, run_intents, run_nodes,
                   run_code, run_codegen_calls, run_saved, run_test_results>>

\* test_code()
TestCode ==
    /\ run_pc = "code" /\ run_code # <<>>
    /\ run_pc' = "tested"
    /\ \E errors \in AuditOutcomes : run_test_results' = <<AuditResult(errors)>>
    /\ UNCHANGED <<run_options, run_preprocessed, run_steps, run_intents, run_nodes,
                   run_code, run_codegen_calls, run_saved, run_summary>>

\* "if save_intermediates: self.save_all_intermediates()"
SaveAllIntermediates ==
    /\ run_pc = "tested"
    /\ run_pc' = "saved"
    /\ run_saved' = (run_options.save_intermediates /\ run_code # <<>>)
    /\ UNCHANGED <<run_options, run_preprocessed, run_steps, run_intents, run_nodes,
                   run_code, run_codegen_calls, run_test_results, run_summary>>

\* "return self.get_summary()"
ReturnSummary ==
    /\ run_pc = "saved"
    /\ run_pc' = "returned"
    /\ run_summary' = <<GetSummary>>
    /\ UNCHANGED <<run_options, run_preprocessed, run_steps, run_intents, run_nodes,
                   run_code, run_codegen_calls, run_saved, run_test_results>>

-----------------------------------------------------------------------------
(* Preprocessor: StepsPreprocessor                                           *)
(*                                                                           *)
(* The text of an event type is a sequence of symbols: blanks, and the name  *)
(* of the type as one indivisible word.  A URL is <<>> for the empty string, *)
(* else <<scheme, netloc, path, query, fragment>>; its query is the sequence *)
(* of its key=value pieces, each <<key, value>> with the value <<>> for      *)
(* "key=".                                                                   *)

CONTEXT_EVENT_TYPES ==
    {"STEPS_FEATURE_TAB_VISIBLE_EVENT", "STEPS_FEATURE_TAB_ACTIVATED_EVENT",
     "STEPS_FEATURE_NAVIGATE_EVENT", "STEPS_FEATURE_PAGE_LOAD_EVENT",
     "STEPS_FEATURE_PAGE_VISIBLE_EVENT", "STEPS_FEATURE_URL_CHANGED_EVENT",
     "STEPS_FEATURE_WINDOW_FOCUS_EVENT", "STEPS_FEATURE_WINDOW_BLUR_EVENT"}

ACTION_EVENT_TYPES ==
    {"STEPS_FEATURE_CLICK_EVENT", "STEPS_FEATURE_TYPE_EVENT",
     "STEPS_FEATURE_CHANGE_EVENT", "STEPS_FEATURE_SELECT_EVENT",
     "STEPS_FEATURE_SUBMIT_EVENT", "STEPS_FEATURE_HOVER_EVENT",
     "STEPS_FEATURE_FOCUS_EVENT", "STEPS_FEATURE_BLUR_EVENT",
     "STEPS_FEATURE_KEY_DOWN_EVENT", "STEPS_FEATURE_KEY_UP_EVENT"}

\* A classification that takes every type outside the two sets for an action.
ClassifyEventUnknownAsAction(step, event_type) ==
    IF Len(event_type) = 1 /\ event_type[1] \in CONTEXT_EVENT_TYPES THEN "context"
    ELSE "action"

\* _classify_event(step): the category, event_type being the trimmed type
ClassifyEvent(step, event_type) ==
    IF Len(event_type) = 1 /\ event_type[1] \in CONTEXT_EVENT_TYPES THEN "context"
    ELSE IF Len(event_type) = 1 /\ event_type[1] \in ACTION_EVENT_TYPES THEN "action"
    ELSE IF step.eventElement # <<>> \/ step.eventData # <<>> THEN "action"
    ELSE "context"

\* tracking_patterns of _strip_tracking_params
tracking_patterns ==
    { <<"u", "t", "m", "_">>, <<"g", "a", "d">>, <<"r", "e", "f", "=">>,
      <<"a", "d", "g", "r", "p">>, <<"h", "v", "p">>, <<"h", "v", "t">>,
      <<"h", "v", "r">>, <<"t", "a", "g", "=">>, <<"c", "r", "i", "d", "=">>,
      <<"s", "p", "r", "e", "f", "i", "x", "=">>, <<"r", "p", "s", "=">>,
      <<"l", "p", "g", "=">> }

\* urllib.parse.parse_qs(query) followed by the filter on the keys: the
\* pieces with a value, without those whose key starts with a tracking pattern
FilteredParams(query) ==
    SelectSeq(query,
              LAMBDA p : p[2] # <<>> /\ ~\E t \in tracking_patterns : StartsWith(p[1], t))

\* urllib.parse.urlencode(filtered_params, doseq=True): the dict holds each
\* key once, in the order of first appearance, with all its values; the
\* pieces of the k-th key onwards
RECURSIVE UrlEncode(_, _)
UrlEncode(pieces, k) ==
    IF k > Len(pieces) THEN <<>>
    ELSE IF \E j \in 1..(k - 1) : pieces[j][1] = pieces[k][1]
        THEN UrlEncode(pieces, k + 1)
        ELSE SelectSeq(pieces, LAMBDA p : p[1] = pieces[k][1]) \o UrlEncode(pieces, k + 1)

\* _strip_tracking_params(url)
StripTrackingParams(url) ==
    IF url = <<>> THEN <<>>
    ELSE <<url[1], url[2], url[3], UrlEncode(FilteredParams(url[4]), 1), url[5]>>

\* A context map whose default is a navigation.
ContextMapDefaultNavigate(event_type) ==
    IF event_type = <<"STEPS_FEATURE_NAVIGATE_EVENT">>
       \/ Len(event_type) # 1 \/ event_type[1] \notin CONTEXT_EVENT_TYPES
    THEN [action |-> "navigate", description |-> <<"Page navigation">>]
    ELSE [action |-> "wait", description |-> <<"Context event">>]

\* context_map of _normalize_context_event, with its default
ContextMap(event_type) ==
    CASE event_type = <<"STEPS_FEATURE_TAB_VISIBLE_EVENT">> ->
             [action |-> "wait", description |-> <<"Tab visibility check">>]
      [] event_type = <<"STEPS_FEATURE_TAB_ACTIVATED_EVENT">> ->
             [action |-> "wait", description |-> <<"Tab activation">>]
      [] event_type = <<"STEPS_FEATURE_NAVIGATE_EVENT">> ->
             [action |-> "navigate", description |-> <<"Page navigation">>]
      [] event_type = <<"STEPS_FEATURE_PAGE_LOAD_EVENT">> ->
             [action |-> "wait", description |-> <<"Page load complete">>]
      [] event_type = <<"STEPS_FEATURE_PAGE_VISIBLE_EVENT">> ->
             [action |-> "wait", description |-> <<"Page visibility check">>]
      [] event_type = <<"STEPS_FEATURE_URL_CHANGED_EVENT">> ->
             [action |-> "wait", description |-> <<"URL changed - wait for navigation">>]
      [] event_type = <<"STEPS_FEATURE_WINDOW_FOCUS_EVENT">> ->
             [action |-> "wait", description |-> <<"Window focused">>]
      [] event_type = <<"STEPS_FEATURE_WINDOW_BLUR_EVENT">> ->
             [action |-> "wait", description |-> <<"Window blurred">>]
      [] OTHER -> [action |-> "wait", description |-> <<"Context event">>]

\* the fields of a normalized step; is_context_event and context_type are
\* written for context events only and read as False and "" elsewhere
PreprocessedStep(idx, action, role, identifier, interactable, element_hints, value, url, event_type, is_context) ==
    [step_index |-> idx, normalized_action |-> action, element_role |-> role,
     human_identifier |-> identifier,
     visibility |-> IF is_context THEN "context" ELSE "visible",
     interactable |-> interactable, element_hints |-> element_hints,
     value |-> value, clean_url |-> StripTrackingParams(url),
     original_event_type |-> event_type, is_context_event |-> is_context,
     context_type |-> IF is_context THEN event_type ELSE <<>>]

\* _normalize_context_event(step, event_type, idx)
NormalizeContextEvent(step, event_type, idx) ==
    PreprocessedStep(idx, ContextMap(event_type).action, <<"context_event">>,
                     ContextMap(event_type).description, FALSE,
                     [id |-> <<>>, class |-> <<>>, name |-> <<>>, test_id |-> <<>>,
                      aria_label |-> <<>>, tag |-> <<"c", "o", "n", "t", "e", "x", "t">>],
                     <<>>, step.url, event_type, TRUE)

\* The keywords of _determine_normalized_action that the lower-cased name of
\* an event type contains.
KeywordsOfType(name) ==
    CASE name = "STEPS_FEATURE_CLICK_EVENT" -> {"click"}
      [] name = "STEPS_FEATURE_TYPE_EVENT" -> {"type"}
      [] name = "STEPS_FEATURE_CHANGE_EVENT" -> {"change"}
      [] name = "STEPS_FEATURE_SELECT_EVENT" -> {"select"}
      [] name = "STEPS_FEATURE_SUBMIT_EVENT" -> {"submit"}
      [] name = "STEPS_FEATURE_HOVER_EVENT" -> {"hover"}
      [] name = "STEPS_FEATURE_FOCUS_EVENT" -> {"focus"}
      [] name \in {"STEPS_FEATURE_KEY_DOWN_EVENT", "STEPS_FEATURE_KEY_UP_EVENT"} -> {"key_"}
      [] name = "STEPS_FEATURE_WINDOW_FOCUS_EVENT" -> {"focus"}
      [] name = "STEPS_FEATURE_URL_CHANGED_EVENT" -> {"change"}
      [] name = "CUSTOM_CLICK" -> {"click"}
      [] OTHER -> {}

\* _determine_normalized_action(event_type, event_element, event_data), "none"
\* for None; keywords are those found in event_type.lower(), lowered is
\* event_element.lower()
DetermineNormalizedAction(keywords, event_element, lowered) ==
    IF "click" \in keywords THEN
        IF /\ Contains(lowered, <<"<", "i", "n", "p", "u", "t">>)
           /\ Contains(event_element, <<"t", "y", "p", "e", "=", "\"", "t", "e", "x", "t", "\"">>)
        THEN "click"
        ELSE IF Contains(lowered, <<"<", "s", "e", "l", "e", "c", "t">>) THEN "select"
        ELSE "click"
    ELSE IF keywords \cap {"type", "keyboard", "key_"} # {} THEN "type"
    ELSE IF keywords \cap {"change", "select"} # {} THEN "select"
    ELSE IF "submit" \in keywords THEN "submit"
    ELSE IF keywords \cap {"hover", "mouseover"} # {} THEN "hover"
    ELSE IF "focus" \in keywords /\ Contains(lowered, <<"t", "e", "x", "t">>) THEN "click"
    ELSE "none"

\* re.search(key + r'["\']([^"\']+)["\']', html).group(1), <<>> without a
\* match: the first place where key is followed by a quote, one or more
\* characters that are not quotes, and a quote
AttrValue(html, key) ==
    LET closes(p) ==
            {e \in (p + Len(key) + 3)..Len(html) :
                /\ html[e] \in {"\"", "'"}
                /\ \A j \in (p + Len(key) + 2)..(e - 1) : html[j] \notin {"\"", "'"}}
        hits == {p \in 0..(Len(html) - Len(key) - 3) :
                    /\ \A k \in 1..Len(key) : html[p + k] = key[k]
                    /\ html[p + Len(key) + 1] \in {"\"", "'"}
                    /\ closes(p) # {}}
    IN  IF hits = {} THEN <<>>
        ELSE SubSeq(html, (CHOOSE p \in hits : \A q \in hits : p <= q) + Len(key) + 2,
                    (CHOOSE e \in closes(CHOOSE p \in hits : \A q \in hits : p <= q) : TRUE) - 1)

\* _extract_element_info(element_html)
ExtractElementInfo(html) ==
    [id |-> AttrValue(html, <<"i", "d", "=">>),
     class |-> AttrValue(html, <<"c", "l", "a", "s", "s", "=">>),
     name |-> AttrValue(html, <<"n", "a", "m", "e", "=">>),
     test_id |-> AttrValue(html, <<"d", "a", "t", "a", "-", "t", "e", "s", "t", "i", "d", "=">>),
     aria_label |-> AttrValue(html, <<"a", "r", "i", "a", "-", "l", "a", "b", "e", "l", "=">>),
     tag |-> IF html # <<>> /\ html[1] = "<" THEN Lower(WordFrom(html, 2)) ELSE <<>>,
     placeholder |-> AttrValue(html, <<"p", "l", "a", "c", "e", "h", "o", "l", "d", "e", "r", "=">>),
     value |-> AttrValue(html, <<"v", "a", "l", "u", "e", "=">>)]

\* re.search(r'>([^<]+)</', html).group(1), <<>> without a match
InnerText(html) ==
    LET closes(p) ==
            {e \in (p + 2)..(Len(html) - 1) :
                /\ html[e] = "<" /\ html[e + 1] = "/"
                /\ \A j \in (p + 1)..(e - 1) : html[j] # "<"}
        hits == {p \in DOMAIN html : html[p] = ">" /\ closes(p) # {}}
    IN  IF hits = {} THEN <<>>
        ELSE SubSeq(html, (CHOOSE p \in hits : \A q \in hits : p <= q) + 1,
                    (CHOOSE e \in closes(CHOOSE p \in hits : \A q \in hits : p <= q) : TRUE) - 1)

\* _extract_human_identifier(element_html, event_data, element_info), inner
\* being the inner text of the markup; the texts of the model are shorter
\* than the 100 characters the code cuts at
ExtractHumanIdentifier(inner, event_data, info) ==
    IF Strip(event_data) # <<>> THEN Strip(event_data)
    ELSE IF Strip(inner) # <<>> THEN Strip(inner)
    ELSE IF info.placeholder # <<>>
        THEN <<"[", "I", "n", "p", "u", "t", ":", " ">> \o info.placeholder \o <<"]">>
    ELSE IF info.aria_label # <<>> THEN <<"[">> \o info.aria_label \o <<"]">>
    ELSE IF info.id # <<>>
        THEN <<"[", "E", "l", "e", "m", "e", "n", "t", " ", "w", "i", "t", "h", " ", "I", "D", ":", " ">>
             \o info.id \o <<"]">>
    ELSE IF info.name # <<>>
        THEN <<"[", "N", "a", "m", "e", "d", ":", " ">> \o info.name \o <<"]">>
    ELSE <<"[">> \o info.tag \o <<"]">>

\* _determine_element_role(element_html, element_info), input_type being the
\* lower-cased type attribute of the markup
DetermineElementRole(html, tag, input_type) ==
    IF tag = <<"b", "u", "t", "t", "o", "n">> THEN <<"button">>
    ELSE IF tag = <<"a">> THEN <<"link">>
    ELSE IF tag = <<"i", "n", "p", "u", "t">> THEN
        IF input_type = <<"c", "h", "e", "c", "k", "b", "o", "x">> THEN <<"checkbox">>
        ELSE IF input_type = <<"r", "a", "d", "i", "o">> THEN <<"radio">>
        ELSE IF input_type = <<"s", "u", "b", "m", "i", "t">> THEN <<"button">>
        ELSE <<"textbox">>
    ELSE IF tag = <<"t", "e", "x", "t", "a", "r", "e", "a">> THEN <<"textarea">>
    ELSE IF tag = <<"s", "e", "l", "e", "c", "t">> THEN <<"dropdown">>
    ELSE IF tag = <<"i", "m", "g">> THEN <<"image">>
    ELSE IF Contains(Lower(html), <<"b", "u", "t", "t", "o", "n">>) THEN <<"button">>
    ELSE <<"other">>

\* the normalized step of an action event whose action and attributes have
\* been read
ActionStepOf(step, idx, action, info) ==
    PreprocessedStep(idx, action,
                     DetermineElementRole(step.eventElement, info.tag,
                         Lower(AttrValue(step.eventElement, <<"t", "y", "p", "e", "=">>))),
                     ExtractHumanIdentifier(InnerText(step.eventElement), step.eventData, info),
                     TRUE,
                     [id |-> info.id, class |-> info.class, name |-> info.name,
                      test_id |-> info.test_id, aria_label |-> info.aria_label,
                      tag |-> info.tag],
                     IF action \in {"type", "select"} THEN step.eventData ELSE <<>>,
                     step.url, step.eventType, FALSE)

\* _normalize_action_event(step, idx): the step as a sequence of length one,
\* <<>> for None
NormalizeActionEvent(step, idx, action) ==
    IF action = "none" THEN <<>>
    ELSE <<ActionStepOf(step, idx, action, ExtractElementInfo(step.eventElement))>>

\* one iteration of the loop of preprocess(steps): the steps the event at
\* index idx adds, event_type being its trimmed type
PreprocessEvent(step, idx, event_type) ==
    IF ClassifyEvent(step, event_type) = "context"
    THEN <<NormalizeContextEvent(step, event_type, idx)>>
    ELSE NormalizeActionEvent(step, idx,
             DetermineNormalizedAction(
                 UNION {KeywordsOfType(step.eventType[k]) : k \in DOMAIN step.eventType},
                 step.eventElement, Lower(step.eventElement)))

\* preprocess(steps): the loop from position i (1-based)
RECURSIVE Preprocess(_, _)
Preprocess(steps, i) ==
    IF i > Len(steps) THEN <<>>
    ELSE PreprocessEvent(steps[i], i - 1, Strip(steps[i].eventType))
         \o Preprocess(steps, i + 1)

\* a raw event of the recording
RawEvent(event_type, element, data, url) ==
    [eventType |-> event_type, eventElement |-> element, eventData |-> data, url |-> url]

\* URLs of recorded events: without a query, with parameters to keep, with
\* tracking parameters, with a parameter that has no value and with a
\* repeated key
RawUrls ==
    { <<>>,
      <<"https", "x.test", "/", <<>>, "top">>,
      <<"https", "x.test", "/", << <<<<"u","t","m","_","s">>, <<"a">>>>, <<<<"q">>, <<"1">>>> >>, "">>,
      <<"https", "x.test", "/p", << <<<<"r","e","f">>, <<"x">>>>, <<<<"q">>, <<"1">>>> >>, "">>,
      <<"https", "x.test", "/p", << <<<<"q">>, <<"1">>>>, <<<<"e">>, <<>>>> >>, "f">>,
      <<"https", "x.test", "/p", << <<<<"a">>, <<"1">>>>, <<<<"b">>, <<"2">>>>, <<<<"a">>, <<"3">>>> >>, "">>,
      <<"https", "x.test", "/p", << <<<<"g","a","d","_","s">>, <<"1">>>>, <<<<"t","a","g">>, <<"t">>>> >>, "">> }

\* Markup whose attribute names contain the name of another attribute:
\* <i data-testid="t">, <i data-testid="t" id="g"> and
\* <i subclass="k" nickname="z">
CompoundMarkup ==
    { <<"<", "i", " ", "d", "a", "t", "a", "-", "t", "e", "s", "t", "i", "d", "=", "\"", "t", "\"", ">">>,
      <<"<", "i", " ", "d", "a", "t", "a", "-", "t", "e", "s", "t", "i", "d", "=", "\"", "t", "\"", " ",
        "i", "d", "=", "\"", "g", "\"", ">">>,
      <<"<", "i", " ", "s", "u", "b", "c", "l", "a", "s", "s", "=", "\"", "k", "\"", " ",
        "n", "i", "c", "k", "n", "a", "m", "e", "=", "\"", "z", "\"", ">">> }

\* Recorded events: every combination of a type (of the context set, of the
\* action set, unknown, empty, padded with blanks), markup and data on one
\* page, a navigation to each of the URLs, and a click on each compound
\* markup.
RawPool ==
    { RawEvent(t, e, d, <<"https", "x.test", "/", <<>>, "">>) :
        t \in { <<"STEPS_FEATURE_NAVIGATE_EVENT">>, <<"STEPS_FEATURE_TAB_VISIBLE_EVENT">>,
                <<" ", "STEPS_FEATURE_PAGE_LOAD_EVENT", " ">>,
                <<"STEPS_FEATURE_CLICK_EVENT">>, <<"STEPS_FEATURE_TYPE_EVENT">>,
                <<"STEPS_FEATURE_BLUR_EVENT">>, <<"VENDOR_EVENT">>, <<>> },
        e \in { <<>>, <<"<", "b", " ", "i", "d", "=", "\"", "g", "\"", ">", "G", "o", "<", "/", "b", ">">> },
        d \in { <<>>, <<"x">> } }
    \cup { RawEvent(<<"STEPS_FEATURE_NAVIGATE_EVENT">>, <<>>, <<>>, u) : u \in RawUrls }
    \cup { RawEvent(<<"STEPS_FEATURE_CLICK_EVENT">>, e, <<>>, <<"https", "x.test", "/", <<>>, "">>) :
              e \in CompoundMarkup }

\* What preprocess records about the events that yield no step, as records
\* of an index and a reason: nothing. action_count and filtered_count count
\* the steps that were appended, statistics is never written, and the None
\* of _normalize_action_event is discarded by "if normalized_step".
RemovalReport == {}

PreIdle ==
    /\ pre_pc = "idle" /\ raw_steps = <<>> /\ pre_categories = <<>>
    /\ preprocessed_steps = <<>> /\ context_events = <<>>

\* a new StepsPreprocessor and the recording handed to preprocess
PreInit ==
    /\ pre_pc = "ready"
    /\ raw_steps \in SeqsUpTo(RawPool, MaxRaw)
    /\ pre_categories = <<>>
    /\ preprocessed_steps = <<>> /\ context_events = <<>>

\* one call of preprocess(raw_steps)
PreprocessRecording ==
    /\ pre_pc = "ready"
    /\ pre_pc' = "done"
    /\ pre_categories' =
           [i \in DOMAIN raw_steps |->
               ClassifyEvent(raw_steps[i], Strip(raw_steps[i].eventType))]
    /\ \E out \in {Preprocess(raw_steps, 1)} :
           /\ preprocessed_steps' = out
           /\ context_events' = SelectSeq(out, LAMBDA s : s.is_context_event)
    /\ UNCHANGED raw_steps

-----------------------------------------------------------------------------
(* IR builder: the loop of ASTConverter.convert_all_intents_to_ast          *)

\* An intent as convert_intent_to_ast reads it: a key that is missing reads
\* as the default of its get (is_context_event False, eventData and
\* context_type "").
IntentAsRead(obj) ==
    [event_type |-> obj.event_type, intent |-> obj.intent, selector |-> obj.selector,
     is_context_event |-> FALSE,
     original_step |-> obj.original_step @@ [eventData |-> <<>>, context_type |-> ""]]

\* Intents handed to the IR builder without passing the gate: with a
\* supplied selector, well formed or not, and without one, the markup of the
\* step then carrying one attribute, several, or none.
ConvPool ==
    {
      \* supplied and well formed
      MkIntent("STEPS_FEATURE_CLICK_EVENT", <<"A">>, SelA, ActionStep(<<>>)),
      \* supplied and malformed
      MkIntent("STEPS_FEATURE_CLICK_EVENT", <<"A">>, <<"p", ">">>, ActionStep(<<>>)),
      \* nothing supplied, no markup
      MkIntent("STEPS_FEATURE_CLICK_EVENT", <<"A">>, <<>>, ActionStep(<<>>)),
      \* blank text
      MkIntent("STEPS_FEATURE_CLICK_EVENT", <<" ">>, SelA, ActionStep(<<>>)),
      \* a context step
      MkIntent("STEPS_FEATURE_TAB_VISIBLE_EVENT", <<>>, <<>>, ContextStep("wait")),
      \* nothing supplied, markup <b id="g">
      MkIntent("STEPS_FEATURE_CLICK_EVENT", <<"A">>, <<>>,
               ActionStep(<<"<", "b", " ", "i", "d", "=", "\"", "g", "\"", ">">>)),
      \* nothing supplied, markup <b id="a)">
      MkIntent("STEPS_FEATURE_CLICK_EVENT", <<"A">>, <<>>,
               ActionStep(<<"<", "b", " ", "i", "d", "=", "\"", "a", ")", "\"", ">">>)),
      \* nothing supplied, markup <i class="c" name="n">
      MkIntent("STEPS_FEATURE_CLICK_EVENT", <<"A">>, <<>>,
               ActionStep(<<"<", "i", " ", "c", "l", "a", "s", "s", "=", "\"", "c", "\"", " ", "n", "a", "m", "e", "=", "\"", "n", "\"", ">">>)),
      \* nothing supplied, markup <i placeholder="p">
      MkIntent("STEPS_FEATURE_CLICK_EVENT", <<"A">>, <<>>,
               ActionStep(<<"<", "i", " ", "p", "l", "a", "c", "e", "h", "o", "l", "d", "e", "r", "=", "\"", "p", "\"", ">">>)),
      \* nothing supplied, markup <i name="n">
      MkIntent("STEPS_FEATURE_CLICK_EVENT", <<"A">>, <<>>,
               ActionStep(<<"<", "i", " ", "n", "a", "m", "e", "=", "\"", "n", "\"", ">">>)),
      \* nothing supplied, markup <i data-testid="t">
      MkIntent("STEPS_FEATURE_CLICK_EVENT", <<"A">>, <<>>,
               ActionStep(<<"<", "i", " ", "d", "a", "t", "a", "-", "t", "e", "s", "t", "i", "d", "=", "\"", "t", "\"", ">">>)) }

\* Single intents whose text carries an "action:" marker, one keyword or
\* none, each recorded with a click type, a tab-visibility type and a type
\* that names no action.
KindPool ==
    { MkIntent(t, text, SelA, ActionStep(<<>>)) :
        t \in {"STEPS_FEATURE_CLICK_EVENT", "STEPS_FEATURE_TAB_VISIBLE_EVENT",
               "STEPS_FEATURE_CHANGE_EVENT"},
        text \in { <<"A", "c", "t", "i", "o", "n", ":", " ", "h", "o", "v", "e", "r", ".", " ", "c", "l", "i", "c", "k", " ", "i", "t">>,
                   <<"a", "c", "t", "i", "o", "n", ":", " ", "z", "a", "p", " ", "s", "c", "r", "o", "l", "l">>,
                   <<"T", "y", "p", "e", " ", "x">>,
                   <<"f", "i", "l", "l", " ", "x">>,
                   <<"S", "e", "l", "e", "c", "t", " ", "x">>,
                   <<"c", "h", "o", "o", "s", "e", " ", "x">>,
                   <<"w", "a", "i", "t">>,
                   <<"S", "c", "r", "o", "l", "l">>,
                   <<"h", "o", "v", "e", "r", " ", "x">>,
                   <<"p", "r", "e", "s", "s", " ", "k">>,
                   <<"n", "a", "v", "i", "g", "a", "t", "e", " ", "x">>,
                   <<"c", "l", "i", "c", "k", " ", "x">>,
                   <<"x">> } }

ConvIdle ==
    /\ conv_pc = "idle" /\ conv_intents = <<>> /\ conv_idx = 0
    /\ conv_ast_node = <<>> /\ conv_ast_nodes = <<>>

\* convert_all_intents_to_ast(intents) called with intents as the intent
\* generator builds them, none of which went through the gate
ConvInit ==
    /\ conv_pc = "loop"
    /\ conv_intents \in SeqsUpTo(ConvPool, MaxIntents) \cup {<<x>> : x \in KindPool}
    /\ conv_idx = 0
    /\ conv_ast_node = <<>>
    /\ conv_ast_nodes = <<>>

\* one iteration of "for idx, intent_obj in enumerate(intents)"
ConvertNextIntent ==
    /\ conv_pc = "loop" /\ conv_idx < Len(conv_intents)
    /\ \E node \in {ConvertIntentToAst(IntentAsRead(conv_intents[conv_idx + 1]))} :
           /\ conv_ast_node' = node
           /\ conv_ast_nodes' = conv_ast_nodes \o node
    /\ conv_idx' = conv_idx + 1
    /\ UNCHANGED <<conv_pc, conv_intents>>

\* "return self.ast_nodes"
ConvertReturn ==
    /\ conv_pc = "loop" /\ conv_idx = Len(conv_intents)
    /\ conv_pc' = "returned"
    /\ UNCHANGED <<conv_intents, conv_idx, conv_ast_node, conv_ast_nodes>>

-----------------------------------------------------------------------------
(* Specifications *)

\* the grammar checker on its own
InitSel == SelInit /\ HintIdle /\ GateIdle /\ EmitIdle /\ RunIdle /\ PreIdle /\ ConvIdle
NextSel ==
    \/ CheckSelector /\ UNCHANGED <<hintVars, gateVars, emitVars, runVars, preVars, convVars>>
    \/ RecheckSelector /\ UNCHANGED <<hintVars, gateVars, emitVars, runVars, preVars, convVars>>
    \/ RecheckTrimmed /\ UNCHANGED <<hintVars, gateVars, emitVars, runVars, preVars, convVars>>
SpecSel == InitSel /\ [][NextSel]_vars

\* the selector policy on its own
InitHints == SelIdle /\ HintInit /\ GateIdle /\ EmitIdle /\ RunIdle /\ PreIdle /\ ConvIdle
NextHints == ChooseSelector /\ UNCHANGED <<selVars, gateVars, emitVars, runVars, preVars, convVars>>
SpecHints == InitHints /\ [][NextHints]_vars

\* the code emitter on its own
InitEmit == SelIdle /\ HintIdle /\ GateIdle /\ EmitInit /\ RunIdle /\ PreIdle /\ ConvIdle
NextEmit ==
    \/ BeginEmission /\ UNCHANGED <<selVars, hintVars, gateVars, runVars, preVars, convVars>>
    \/ EmitNode /\ UNCHANGED <<selVars, hintVars, gateVars, runVars, preVars, convVars>>
    \/ FinishEmission /\ UNCHANGED <<selVars, hintVars, gateVars, runVars, preVars, convVars>>
SpecEmit == InitEmit /\ [][NextEmit]_vars

\* one run of the pipeline
InitRun == SelIdle /\ HintIdle /\ GateIdle /\ EmitIdle /\ RunInit /\ PreIdle /\ ConvIdle
NextRun ==
    \/ PreprocessSteps /\ UNCHANGED <<selVars, hintVars, gateVars, emitVars, preVars, convVars>>
    \/ LoadAndChunkSteps /\ UNCHANGED <<selVars, hintVars, gateVars, emitVars, preVars, convVars>>
    \/ GenerateIntents /\ UNCHANGED <<selVars, hintVars, gateVars, emitVars, preVars, convVars>>
    \/ AbortNoIntents /\ UNCHANGED <<selVars, hintVars, gateVars, emitVars, preVars, convVars>>
    \/ ConvertToAst /\ UNCHANGED <<selVars, hintVars, gateVars, emitVars, preVars, convVars>>
    \/ AbortNoNodes /\ UNCHANGED <<selVars, hintVars, gateVars, emitVars, preVars, convVars>>
    \/ ValidateAstWithDom /\ UNCHANGED <<selVars, hintVars, gateVars, emitVars, preVars, convVars>>
    \/ GenerateCode /\ UNCHANGED <<selVars, hintVars, gateVars, emitVars, preVars, convVars>>
    \/ AbortNoCode /\ UNCHANGED <<selVars, hintVars, gateVars, emitVars, preVars, convVars>>
    \/ TestCode /\ UNCHANGED <<selVars, hintVars, gateVars, emitVars, preVars, convVars>>
    \/ SaveAllIntermediates /\ UNCHANGED <<selVars, hintVars, gateVars, emitVars, preVars, convVars>>
    \/ ReturnSummary /\ UNCHANGED <<selVars, hintVars, gateVars, emitVars, preVars, convVars>>
SpecRun == InitRun /\ [][NextRun]_vars

\* the safety gate on its own
InitGate == SelIdle /\ HintIdle /\ GateInit /\ EmitIdle /\ RunIdle /\ PreIdle /\ ConvIdle
NextGate == ValidateAndClean /\ UNCHANGED <<selVars, hintVars, emitVars, runVars, preVars, convVars>>
SpecGate == InitGate /\ [][NextGate]_vars

\* the preprocessor on its own
InitPre == SelIdle /\ HintIdle /\ GateIdle /\ EmitIdle /\ RunIdle /\ PreInit /\ ConvIdle
NextPre == PreprocessRecording /\ UNCHANGED <<selVars, hintVars, gateVars, emitVars, runVars, convVars>>
SpecPre == InitPre /\ [][NextPre]_vars

\* the IR builder on its own, called with intents that bypassed the gate
InitConv == SelIdle /\ HintIdle /\ GateIdle /\ EmitIdle /\ RunIdle /\ PreIdle /\ ConvInit
NextConv ==
    \/ ConvertNextIntent /\ UNCHANGED <<selVars, hintVars, gateVars, emitVars, runVars, preVars>>
    \/ ConvertReturn /\ UNCHANGED <<selVars, hintVars, gateVars, emitVars, runVars, preVars>>
SpecConv == InitConv /\ [][NextConv]_vars

-----------------------------------------------------------------------------
(* Claims about the safety gate, checked under SpecGate *)

Triple(x) == <<x.event_type, x.selector, x.intent>>

\* the retained item with the greatest step_index below that of x
RetainedBefore(x) ==
    {r \in Range(deduplicated) :
        /\ r.step_index < x.step_index
        /\ \A q \in Range(deduplicated) :
              q.step_index < x.step_index => q.step_index <= r.step_index}

\* C1: the returned sequence is an order-preserving subsequence of the
\* accepted intents; an accepted intent is missing from it exactly when its
\* (event_type, selector, text) triple equals that of the last item retained
\* before it; three adjacent equal intents collapse to one, a run whose middle
\* item differs in selector keeps all three, and so does A, B, A; no two
\* adjacent returned items have equal triples.
C1_DedupAgainstLastRetained ==
    gate_pc = "done" =>
        /\ \A i \in DOMAIN deduplicated : deduplicated[i] \in Range(cleaned_intents)
        /\ \A i, j \in DOMAIN deduplicated :
              i < j => deduplicated[i].step_index < deduplicated[j].step_index
        /\ \A i \in DOMAIN cleaned_intents :
              (cleaned_intents[i] \notin Range(deduplicated))
                 <=> (\E r \in RetainedBefore(cleaned_intents[i]) :
                         Triple(r) = Triple(cleaned_intents[i]))
        /\ \A i \in 1..(Len(deduplicated) - 1) :
              Triple(deduplicated[i]) # Triple(deduplicated[i + 1])
        /\ Len(cleaned_intents) = 3 =>
              LET a == cleaned_intents[1]
                  b == cleaned_intents[2]
                  c == cleaned_intents[3]
              IN  /\ (Triple(a) = Triple(b) /\ Triple(b) = Triple(c))
                        => Len(deduplicated) = 1
                  /\ (Triple(a) = Triple(c) /\ Triple(a) # Triple(b))
                        => deduplicated = cleaned_intents
                  /\ (a.selector # b.selector /\ b.selector # c.selector)
                        => deduplicated = cleaned_intents

\* C1 witness: three accepted intents with one triple, one of them equal to
\* the others only after its text was trimmed, were collapsed to one.
C1_Witness ==
    /\ gate_pc = "done"
    /\ Len(cleaned_intents) = 3
    /\ Triple(cleaned_intents[1]) = Triple(cleaned_intents[2])
    /\ Triple(cleaned_intents[2]) = Triple(cleaned_intents[3])
    /\ \E i \in DOMAIN raw_intents : raw_intents[i].intent # cleaned_intents[i].intent
    /\ Len(deduplicated) = 1

\* The kinds that do not need a selector, as the gate's contract lists them
\* (navigate and wait kinds); every other kind, known or not, needs one.
KindsWithoutSelector ==
    {"STEPS_FEATURE_TAB_VISIBLE_EVENT", "STEPS_FEATURE_NAVIGATE_EVENT",
     "STEPS_FEATURE_WAIT_EVENT", "PREPROCESSED"}

AcceptedAt(i) == \E c \in Range(cleaned_intents) : c.step_index = i - 1

BlankSelector(sel) == ~Truthy(sel) \/ Strip(sel) = <<>>

-----------------------------------------------------------------------------
(* Claims about the selector policy, checked under SpecHints *)

\* the hint the documented priority would use:
\* id > data-testid > name > aria-label > class (first token) > bare tag
DocumentedChoice(h) ==
    IF h.id # <<>> THEN <<"#">> \o h.id
    ELSE IF h.test_id # <<>>
        THEN <<"[", "d", "a", "t", "a", "-", "t", "e", "s", "t", "i", "d", "=", "'">>
             \o h.test_id \o <<"'", "]">>
    ELSE IF h.name # <<>>
        THEN <<"[", "n", "a", "m", "e", "=", "'">> \o h.name \o <<"'", "]">>
    ELSE IF h.aria_label # <<>>
        THEN <<"[", "a", "r", "i", "a", "-", "l", "a", "b", "e", "l", "=", "'">>
             \o h.aria_label \o <<"'", "]">>
    ELSE IF FirstToken(h.class) # <<>> THEN <<".">> \o FirstToken(h.class)
    ELSE h.tag

\* C3: the selector chosen from the hints is built from the single
\* highest-priority non-empty hint in the order id > data-testid > name >
\* aria-label > class (first token) > bare tag; hints with a data-testid and a
\* name and no id yield the data-testid selector, and hints with only a tag
\* yield the bare tag.
C3_ChoiceFollowsDocumentedPriority ==
    hint_selector # <<"unbuilt">> => hint_selector = DocumentedChoice(hints)

-----------------------------------------------------------------------------
(* Claims about the grammar checker, checked under SpecSel *)

HasEmptyBrackets(t) == Contains(t, <<"[", "]">>)
HasEmptyParens(t) == Contains(t, <<"(", ")">>)
HasDoubledSpace(t) == Contains(t, <<" ", " ">>)

\* C4: is_valid rejects every selector that contains, at any position of the
\* string it examines, a "<", a ">", a newline, two consecutive spaces, an
\* empty bracket pair "[]" or an empty paren pair "()".
C4_RejectsForbiddenAnywhere ==
    sel_verdict = "valid" =>
        /\ ~HtmlBrackets(sel_checked)
        /\ ~Newlines(sel_checked)
        /\ ~HasDoubledSpace(sel_checked)
        /\ ~HasEmptyBrackets(sel_checked)
        /\ ~HasEmptyParens(sel_checked)

IdShape(t) == Len(t) >= 2 /\ t[1] = "#" /\ \A i \in 2..Len(t) : IsIdentChar(t[i])
ClassShape(t) == Len(t) >= 2 /\ t[1] = "." /\ \A i \in 2..Len(t) : IsIdentChar(t[i])
BracketShape(t) == Len(t) >= 3 /\ t[1] = "[" /\ t[Len(t)] = "]"
BareWordShape(t) ==
    /\ Len(t) >= 1 /\ IsLetter(t[1])
    /\ \A i \in 2..Len(t) : IsWordDashChar(t[i])

\* the rejection rules that apply to every selector, whatever its first
\* character
GenerallyRejected(t) ==
    \/ \E i \in DOMAIN t : t[i] \in {"<", ">", "\n", "\r"}
    \/ \E i \in 1..(Len(t) - 1) : IsSpace(t[i]) /\ IsSpace(t[i + 1])
    \/ t[Len(t)] \in {"{", "}", "(", ")"}
    \/ Count(t, "[") # Count(t, "]")
    \/ Count(t, "(") # Count(t, ")")

\* C5 as stated: every accepted string has one of the four shapes, so a
\* string that starts with a letter and contains other characters is rejected.
C5_AcceptedHasOneOfFourShapes ==
    sel_verdict = "valid" =>
        \/ IdShape(sel_checked)
        \/ ClassShape(sel_checked)
        \/ BracketShape(sel_checked)
        \/ BareWordShape(sel_checked)

\* C5 (amended): every accepted string has, once trimmed, one of four
\* shapes: "#" or "." followed only by [A-Za-z0-9_-]+, a string that starts
\* with "[" and ends with "]" with a non-empty interior, or a string that
\* starts with a letter; a string that starts with a letter gets no further
\* shape check, so it is accepted, whatever other characters it contains,
\* exactly when no general rejection rule applies to it.
C5_AcceptedShapes ==
    sel_calls >= 1 =>
        /\ sel_verdict = "valid" =>
              \/ IdShape(sel_checked)
              \/ ClassShape(sel_checked)
              \/ BracketShape(sel_checked)
              \/ (sel_checked # <<>> /\ IsLetter(sel_checked[1]))
        /\ (sel_checked # <<>> /\ IsLetter(sel_checked[1])) =>
              (sel_verdict = "valid" <=> ~GenerallyRejected(sel_checked))

\* C5 witness: a string that starts with a letter and contains a character
\* outside [A-Za-z0-9-] was checked and accepted.
C5_Witness ==
    /\ sel_calls = 1
    /\ sel_input = <<"a", "!">>
    /\ sel_verdict = "valid"

RejectedExamples ==
    { <<>>, <<" ", " ">>, <<"[", "]">>, <<"<", "d", "i", "v", ">">>, <<"p", ">">> }

\* C6: re-checking an accepted string, or the trimmed form the check
\* examined, accepts again, however many calls came before; and "", "  ",
\* "[]", "<div>" and "p>" are rejected.
C6_IdempotentAndRejects ==
    sel_calls >= 1 =>
        /\ sel_first = "valid" => sel_verdict = "valid"
        /\ sel_input \in RejectedExamples => sel_verdict = "invalid"

\* C6 witness: a string accepted with surrounding blanks was checked again in
\* its trimmed form and accepted again.
C6_Witness ==
    /\ sel_calls = 2
    /\ sel_first = "valid"
    /\ sel_input = <<"#", "g", "o">>
    /\ sel_checked = sel_input
    /\ sel_verdict = "valid"

-----------------------------------------------------------------------------
(* Claims about the code emitter, checked under SpecEmit *)

IsInteractive(node) == node.action_type \in interactive_action_types

\* how many interactive nodes of the validated sequence use the selector
InteractiveUses(sel) ==
    Cardinality({i \in DOMAIN safe_nodes :
                    IsInteractive(safe_nodes[i]) /\ safe_nodes[i].selector = sel})

\* how many interactive nodes before position i (1-based) use the selector
EarlierInteractiveUses(sel, i) ==
    Cardinality({j \in 1..(i - 1) :
                    IsInteractive(safe_nodes[j]) /\ safe_nodes[j].selector = sel})

InteractiveBlocks == {b \in DOMAIN blocks : blocks[b].kind \in interactive_action_types}

\* C7: when three or more interactive nodes share a selector, each of them
\* is emitted with an indexed reference whose index is the number of earlier
\* interactive nodes with that selector (0, 1, 2, ... in original order),
\* whatever other nodes lie between them, including non-interactive nodes
\* that carry the same selector.
C7_IndexCountsEarlierInteractive ==
    \A b \in InteractiveBlocks :
        InteractiveUses(blocks[b].selector) >= 3 =>
            /\ blocks[b].ref = "nth"
            /\ blocks[b].index =
                  EarlierInteractiveUses(blocks[b].selector, blocks[b].step + 1)

\* C8: an interactive node is emitted with the first-match reference exactly
\* when its selector is used by one interactive node of the validated
\* sequence and with an indexed reference exactly when it is used by more
\* than one; the per-selector totals are those of the validated sequence from
\* the moment the first block exists, and no emission step changes them.
C8_ReferenceFormFollowsTotal ==
    /\ [](/\ \A b \in InteractiveBlocks :
              /\ blocks[b].ref = "first" <=> InteractiveUses(blocks[b].selector) = 1
              /\ blocks[b].ref = "nth" <=> InteractiveUses(blocks[b].selector) > 1
          /\ blocks # <<>> =>
                \A i \in DOMAIN safe_nodes :
                    IsInteractive(safe_nodes[i]) =>
                        /\ safe_nodes[i].selector \in DOMAIN selector_usage_count
                        /\ selector_usage_count[safe_nodes[i].selector]
                              = InteractiveUses(safe_nodes[i].selector))
    /\ [][emit_pc = "emitting" =>
              /\ selector_usage_count' = selector_usage_count
              /\ safe_nodes' = safe_nodes]_vars

\* a finished script that holds a first-match reference and an indexed one
C8_Witness ==
    /\ emit_pc = "done"
    /\ \E b \in DOMAIN generated_code : generated_code[b].ref = "first"
    /\ \E b \in DOMAIN generated_code : generated_code[b].ref = "nth"

\* C9: the URL of the initial navigation is the explicit override when one is
\* given, otherwise the full URL of the first navigate node of the sequence,
\* otherwise the placeholder URL; no other source takes precedence over the
\* first navigate node.
C9_InitialUrlPriority ==
    blocks # <<>> =>
        blocks[1].url =
            IF first_url # <<>> THEN first_url
            ELSE IF \E i \in DOMAIN safe_nodes : safe_nodes[i].action_type = "navigate"
                THEN FirstNavigateUrl(safe_nodes)
            ELSE PlaceholderUrl

\* the position (1-based) of the first navigate node of safe_nodes, 0 when
\* there is none
FirstNavigate ==
    IF \E p \in DOMAIN safe_nodes : safe_nodes[p].action_type = "navigate"
    THEN CHOOSE p \in DOMAIN safe_nodes :
            /\ safe_nodes[p].action_type = "navigate"
            /\ \A q \in 1..(p - 1) : safe_nodes[q].action_type # "navigate"
    ELSE 0

\* the positions of the nodes the loop has gone through and not skipped
EmittedPositions == {p \in 1..emit_idx : p # FirstNavigate}

\* C26: the emission loop skips exactly one node, the first navigate node of
\* the validated sequence when there is one, and appends exactly one block
\* for every other validated node, in node order, after the initial block; a
\* later navigate node gets a navigation block with its own URL.
C26_SkipsOnlyFirstNavigate ==
    (emit_pc \in {"emitting", "done"} /\ safe_nodes # <<>>) =>
        /\ Len(blocks) = 1 + Cardinality(EmittedPositions)
        /\ blocks[1].kind = "initial"
        /\ \A p \in EmittedPositions :
              \E b \in {blocks[1 + Cardinality({q \in EmittedPositions : q <= p})]} :
                  /\ b.step = p - 1
                  /\ b.kind = safe_nodes[p].action_type
                  /\ safe_nodes[p].action_type = "navigate" => b.url = safe_nodes[p].url
        /\ emit_pc = "done" => emit_idx = Len(safe_nodes) /\ generated_code = blocks

\* C26 witness: of two navigate nodes around a click, the first was skipped
\* and the second emitted as a navigation block.
C26_Witness ==
    /\ emit_pc = "done"
    /\ Len(safe_nodes) = 3
    /\ safe_nodes[1].action_type = "navigate"
    /\ safe_nodes[2].action_type = "click"
    /\ safe_nodes[3].action_type = "navigate"
    /\ Len(blocks) = 3
    /\ blocks[2].kind = "click" /\ blocks[2].step = 1
    /\ blocks[3].kind = "navigate" /\ blocks[3].step = 2 /\ blocks[3].url = UrlB

-----------------------------------------------------------------------------
\* The nodes the emitter's own validation is to exclude: an interactive node
\* whose selector is empty or malformed, a navigate node whose URL is empty.
ExcludedBeforeEmission(node) ==
    \/ /\ node.action_type \in interactive_action_types
       /\ \/ node.selector \in {NoSelector, <<>>}
          \/ Strip(node.selector) = <<>>
          \/ ~IsValidSelector(node.selector)
    \/ node.action_type = "navigate" /\ node.url = <<>>

\* "No valid AST nodes passed safety checks" is among the recorded errors
HardErrorRecorded ==
    \E i \in DOMAIN code_errors :
        code_errors[i].reason = "No valid AST nodes passed safety checks"

\* C27: once generate_code_from_ast has returned, no excluded node was
\* emitted from, and whenever no node of the input list remains after the
\* validation (the input list being empty included) the script text is empty
\* and the hard error is recorded.
C27_EmptyAfterValidationIsHardError ==
    /\ \A i \in DOMAIN safe_nodes : ~ExcludedBeforeEmission(safe_nodes[i])
    /\ (/\ emit_pc = "done"
        /\ \A i \in DOMAIN ast_nodes : ExcludedBeforeEmission(ast_nodes[i]))
       => (generated_code = <<>> /\ HardErrorRecorded)

\* The part of C27 about a non-empty list: all nodes excluded, no script, the
\* hard error recorded.
C27_AllExcludedIsHardError ==
    (/\ emit_pc = "done" /\ ast_nodes # <<>>
     /\ \A i \in DOMAIN ast_nodes : ExcludedBeforeEmission(ast_nodes[i]))
    => (generated_code = <<>> /\ HardErrorRecorded)

(* Claims about the run of the pipeline, checked under SpecRun *)

\* the gate has run and has rejected every intent
AllIntentsRejected ==
    /\ run_pc \notin {"start", "preprocessed", "loaded"}
    /\ run_intents = <<>>

\* C10: when every intent is rejected by the safety gate, the run ends with
\* the aborted status without calling the code emitter: no script text is
\* produced or saved, the only step open to the run is the return of the
\* aborted summary, and no run returns a success status with an empty script.
C10_AbortsWhenAllIntentsRejected ==
    /\ [](AllIntentsRejected =>
             /\ run_pc \in {"intents", "returned"}
             /\ run_codegen_calls = 0
             /\ run_code = <<>>
             /\ ~run_saved
             /\ run_pc = "returned" =>
                    /\ run_summary # <<>>
                    /\ run_summary[1].pipeline_status = "ABORTED")
    /\ [](run_summary # <<>> /\ run_code = <<>> =>
             run_summary[1].pipeline_status = "ABORTED")
    /\ [][AllIntentsRejected /\ run_pc = "intents" => run_pc' = "returned"]_vars

\* a recording whose steps were all rejected and whose run has returned
C10_Witness ==
    /\ run_pc = "returned"
    /\ run_steps # <<>>
    /\ run_intents = <<>>
    /\ run_summary[1].pipeline_status = "ABORTED"

\* the stage a failure reason names, "none" when it names no stage
StageNamed(reason) ==
    CASE reason = "No valid intents after validation" -> "intent validation"
      [] reason = "No valid AST nodes after conversion" -> "conversion"
      [] reason = "Code generation failed" -> "code generation"
      [] OTHER -> "none"

\* C11: an aborted run names the first stage that yielded zero items: a run
\* whose normalization yielded no step is reported as a failure of
\* normalization, and a failure of intent validation is reported only when
\* normalization yielded steps.
C11_AbortNamesFirstEmptyStage ==
    run_pc = "returned" /\ run_summary[1].pipeline_status = "ABORTED" =>
        /\ run_preprocessed = <<>> =>
               StageNamed(run_summary[1].failure_reason) = "normalization"
        /\ run_preprocessed # <<>> /\ run_intents = <<>> =>
               StageNamed(run_summary[1].failure_reason) = "intent validation"

\* the reasons a removal by validation can carry
SpecificReasons == {"Intent text is empty", "Empty selector", "Malformed CSS selector"}

\* the positions (1-based) of the intents the validation loop rejected
RejectedPositions ==
    {i \in DOMAIN raw_intents : ValidateSingleIntent(raw_intents[i], i - 1).cleaned = <<>>}

\* the accepted intents that the deduplication removed
RemovedAsDuplicate ==
    {i \in DOMAIN cleaned_intents :
        \A k \in DOMAIN deduplicated :
            deduplicated[k].step_index # cleaned_intents[i].step_index}

\* C12: every intent removed by validate_and_clean_intents has its own entry
\* in the report, with the index it had in the input and a reason specific to
\* its failure: a rejected intent in removed_steps_details with one of the
\* specific reasons, a removed duplicate in the warnings with the step it
\* repeats.
C12_EveryRemovalReportedWithReason ==
    gate_pc = "done" =>
        /\ \A i \in RejectedPositions :
              \E k \in DOMAIN report.removed_steps_details :
                  /\ report.removed_steps_details[k].idx = i - 1
                  /\ report.removed_steps_details[k].reason \in SpecificReasons
        /\ Len(report.removed_steps_details) = Cardinality(RejectedPositions)
        /\ \A i \in RemovedAsDuplicate :
              \E k \in DOMAIN report.validation_warnings :
                  /\ report.validation_warnings[k].step = cleaned_intents[i].step_index
                  /\ report.validation_warnings[k].reason = "Removed duplicate action"

\* an intent of the context kind: its step is flagged as a context event or
\* has the normalized action wait
ContextKindPositions ==
    {i \in DOMAIN raw_intents :
        \/ raw_intents[i].original_step.is_context_event
        \/ raw_intents[i].original_step.normalized_action = "wait"}

\* C15: validate_single_intent accepts every intent of the context kind,
\* whatever its text, event type or supplied selector, and the accepted
\* intent has an empty selector and is marked as a context event.
C15_ContextKindAlwaysAccepted ==
    gate_pc = "done" =>
        \A i \in ContextKindPositions :
            /\ i \notin RejectedPositions
            /\ \E k \in DOMAIN cleaned_intents :
                  /\ cleaned_intents[k].step_index = i - 1
                  /\ cleaned_intents[k].selector = <<>>
                  /\ cleaned_intents[k].is_context_event
                  /\ cleaned_intents[k].event_type = raw_intents[i].event_type

\* accepted: a flagged context intent of the click type with a malformed
\* selector, and an unflagged wait step with blank text and no event type
C15_Witness ==
    /\ gate_pc = "done"
    /\ Len(raw_intents) = 2 /\ Len(cleaned_intents) = 2
    /\ raw_intents[1].original_step.is_context_event
    /\ raw_intents[1].selector = <<"p", ">">>
    /\ raw_intents[1].event_type = "STEPS_FEATURE_CLICK_EVENT"
    /\ ~raw_intents[2].original_step.is_context_event
    /\ raw_intents[2].original_step.normalized_action = "wait"
    /\ Strip(raw_intents[2].intent) = <<>>
    /\ cleaned_intents[2].selector = <<>> /\ cleaned_intents[2].is_context_event

\* the accepted intent that came from position i (1-based) of the input
AcceptedFrom(i) ==
    CHOOSE c \in Range(cleaned_intents) : c.step_index = i - 1

\* C16: the whole sequence is validated before any deduplication, and the
\* deduplication compares each accepted intent with the last one retained:
\* two accepted intents with equal (event_type, selector, text) separated in
\* the input only by rejected intents collapse to one.
C16_DedupAfterWholeValidation ==
    gate_pc = "done" =>
        /\ {c.step_index + 1 : c \in Range(cleaned_intents)}
              = DOMAIN raw_intents \ RejectedPositions
        /\ deduplicated = DeduplicateConsecutiveActions(cleaned_intents)
        /\ \A i, j \in DOMAIN raw_intents \ RejectedPositions :
              (/\ i < j
               /\ \A k \in (i + 1)..(j - 1) : k \in RejectedPositions
               /\ Triple(AcceptedFrom(i)) = Triple(AcceptedFrom(j)))
              => \A k \in DOMAIN deduplicated : deduplicated[k].step_index # j - 1

\* C16 witness: accepted, rejected, accepted with the triple of the first;
\* one intent is returned.
C16_Witness ==
    /\ gate_pc = "done"
    /\ Len(raw_intents) = 3
    /\ RejectedPositions = {2}
    /\ ~cleaned_intents[1].is_context_event
    /\ Triple(cleaned_intents[1]) = Triple(cleaned_intents[2])
    /\ Len(deduplicated) = 1

\* C18: the audit verdict is PASS exactly when its error list is empty, and
\* a failing audit is advisory: once a non-empty script was emitted and the
\* audit failed, the run does not return the aborted status, the script is
\* saved whenever saving was asked for, and the command-line run exits with
\* status zero.
C18_FailingAuditIsAdvisory ==
    run_test_results # <<>> =>
        /\ run_code # <<>>
        /\ (run_test_results[1].status = "PASS") <=> (run_test_results[1].errors = <<>>)
        /\ run_test_results[1].status \in {"PASS", "FAIL"}
        /\ run_test_results[1].total_errors = Len(run_test_results[1].errors)
        /\ run_test_results[1].status = "FAIL" =>
              /\ run_pc \in {"saved", "returned"} =>
                    (run_saved <=> run_options.save_intermediates)
              /\ run_pc = "returned" =>
                    /\ run_summary[1].pipeline_status = "FAILED"
                    /\ run_summary[1].test_status = "FAIL"
                    /\ ExitStatus(run_summary[1]) = 0

\* C18 witness: a run whose audit failed returned after saving the script.
C18_Witness ==
    /\ run_pc = "returned"
    /\ run_test_results # <<>> /\ run_test_results[1].status = "FAIL"
    /\ run_test_results[1].errors # <<>>
    /\ run_options.save_intermediates /\ run_saved
    /\ run_summary[1].pipeline_status = "FAILED"

\* C19 as stated: every intent retained by the gate lowers to exactly one
\* node, so after the conversion the nodes are as many as the intents and in
\* their order, and the node of a context intent, whatever its recorded
\* event type, is a navigate or a wait node.
C19_OneNodePerRetainedIntent ==
    run_pc = "ast" =>
        /\ Len(run_nodes) = Len(run_intents)
        /\ \A i \in DOMAIN run_intents :
              /\ ConvertIntentToAst(run_intents[i]) # <<>>
              /\ i \in DOMAIN run_nodes
                    => run_nodes[i] = ConvertIntentToAst(run_intents[i])[1]
              /\ run_intents[i].is_context_event /\ i \in DOMAIN run_nodes
                    => run_nodes[i].action_type \in {"navigate", "wait"}

\* the node kind that corresponds to the normalized action of an action step
KindOfAction(action) ==
    CASE action = "click" -> "click"
      [] action = "type" -> "fill"
      [] action = "select" -> "select"
      [] action = "hover" -> "hover"
      [] action = "submit" -> "click"
      [] OTHER -> "none"

\* C23 as stated: for every action step of the run, the node's action is
\* the one that corresponds to the step's normalized_action, whatever the
\* words of its human_identifier or of its value.
C23_NodeKindFollowsNormalizedAction ==
    (run_pc = "ast" /\ Len(run_nodes) = Len(run_intents)) =>
        \A i \in DOMAIN run_intents :
            ~run_intents[i].is_context_event =>
                run_nodes[i].action_type
                    = KindOfAction(run_intents[i].original_step.normalized_action)

-----------------------------------------------------------------------------
\* the step indexes of the intents the gate returned
RetainedIndexes == {run_intents[k].step_index : k \in DOMAIN run_intents}

\* the step indexes of the intents that passed validate_single_intent
ValidatedIndexes ==
    LET cleaned == ValidateAndCleanIntents(
                       [i \in DOMAIN run_steps |-> GenerateIntentFromPreprocessed(run_steps[i])]).cleaned
    IN  {cleaned[k].step_index : k \in DOMAIN cleaned}

\* two consecutive navigation steps to different cleaned URLs
NavigationsToDifferentPages(a, b) ==
    /\ a.normalized_action = "navigate" /\ b.normalized_action = "navigate"
    /\ a.clean_url # b.clean_url

\* two consecutive type or select steps on the same element with different
\* values
SameFieldDifferentValues(a, b) ==
    /\ a.normalized_action \in {"type", "select"}
    /\ b.normalized_action = a.normalized_action
    /\ BuildSelectorFromHints(a.element_hints) = BuildSelectorFromHints(b.element_hints)
    /\ a.value # b.value

\* C30: when a step that passed validation directly follows a retained step
\* and differs from it in effect (a navigation to another cleaned URL, or
\* another value typed into or selected from the same element), the
\* deduplication retains it too.
C30_DedupKeepsStepsOfDifferentEffect ==
    run_pc = "intents" =>
        \A i \in 1..(Len(run_steps) - 1) :
            (/\ i - 1 \in RetainedIndexes
             /\ i \in ValidatedIndexes
             /\ \/ NavigationsToDifferentPages(run_steps[i], run_steps[i + 1])
                \/ SameFieldDifferentValues(run_steps[i], run_steps[i + 1]))
            => i \in RetainedIndexes

\* The part of C30 about typed and selected values.
C30_DifferentValuesSurvive ==
    run_pc = "intents" =>
        \A i \in 1..(Len(run_steps) - 1) :
            (/\ i - 1 \in RetainedIndexes
             /\ i \in ValidatedIndexes
             /\ SameFieldDifferentValues(run_steps[i], run_steps[i + 1]))
            => i \in RetainedIndexes

\* two values were selected from one dropdown, one after the other, and both
\* steps were retained
C30_DifferentValuesCase ==
    /\ run_pc = "intents" /\ Len(run_steps) = 2
    /\ run_steps[1].normalized_action = "select"
    /\ SameFieldDifferentValues(run_steps[1], run_steps[2])
    /\ RetainedIndexes = {0, 1}

(* Claims about the preprocessor, checked under SpecPre *)

\* the name of the type of a raw event once trimmed, "" when the trimmed text
\* is empty or is not one word
TypeName(step) ==
    IF Len(Strip(step.eventType)) = 1 THEN Strip(step.eventType)[1] ELSE ""

HasPayload(step) == step.eventElement # <<>> \/ step.eventData # <<>>

\* C13: classification is total and single-valued: every raw event of the
\* recording gets exactly one of the two categories, equal events get the
\* same one; a type of the context set gives Context, a type of the action
\* set gives Action, the two sets are disjoint, and an event of any other
\* type is Action exactly when it carries markup or data.
C13_ClassificationTotal ==
    /\ CONTEXT_EVENT_TYPES \cap ACTION_EVENT_TYPES = {}
    /\ pre_pc = "done" =>
        /\ DOMAIN pre_categories = DOMAIN raw_steps
        /\ \A i \in DOMAIN raw_steps :
              /\ pre_categories[i] \in {"context", "action"}
              /\ \A j \in DOMAIN raw_steps :
                    raw_steps[i] = raw_steps[j] => pre_categories[i] = pre_categories[j]
              /\ TypeName(raw_steps[i]) \in CONTEXT_EVENT_TYPES =>
                    pre_categories[i] = "context"
              /\ TypeName(raw_steps[i]) \in ACTION_EVENT_TYPES =>
                    pre_categories[i] = "action"
              /\ TypeName(raw_steps[i]) \notin CONTEXT_EVENT_TYPES \cup ACTION_EVENT_TYPES =>
                    (pre_categories[i] = "action" <=> HasPayload(raw_steps[i]))

\* a recording of an unknown type with data next to an empty type without
\* markup or data has been classified
C13_Witness ==
    /\ pre_pc = "done"
    /\ Len(raw_steps) = 2
    /\ TypeName(raw_steps[1]) = "VENDOR_EVENT" /\ HasPayload(raw_steps[1])
    /\ pre_categories[1] = "action"
    /\ TypeName(raw_steps[2]) = "" /\ ~HasPayload(raw_steps[2])
    /\ pre_categories[2] = "context"

\* the normalized steps that the event at position i (1-based) produced
StepsOf(i) == {k \in DOMAIN preprocessed_steps : preprocessed_steps[k].step_index = i - 1}

\* the action a context event is documented to map to
ContextAction(step) ==
    IF TypeName(step) = "STEPS_FEATURE_NAVIGATE_EVENT" THEN "navigate" ELSE "wait"

\* C14 as stated: every event classified Context yields exactly one
\* normalized step, with action navigate for the navigation type and wait for
\* every other type, marked as a context event, with all element hints empty.
C14_ContextStepHasNoHints ==
    pre_pc = "done" =>
        \A i \in DOMAIN raw_steps :
            pre_categories[i] = "context" =>
                /\ Cardinality(StepsOf(i)) = 1
                /\ \A k \in StepsOf(i) :
                      /\ preprocessed_steps[k].normalized_action = ContextAction(raw_steps[i])
                      /\ preprocessed_steps[k].is_context_event
                      /\ \A h \in DOMAIN preprocessed_steps[k].element_hints :
                            preprocessed_steps[k].element_hints[h] = <<>>

\* C14 (amended): every event classified Context yields exactly one
\* normalized step, never zero, with action navigate for the navigation type
\* and wait for every other type (unknown types included), marked as a
\* context event, whose id, class, name, test_id and aria_label hints are
\* empty and whose tag hint is the marker "context"; no context step has an
\* action outside wait and navigate, and every context step is listed in
\* context_events.
C14_ContextStepShape ==
    pre_pc = "done" =>
        /\ \A i \in DOMAIN raw_steps :
              pre_categories[i] = "context" =>
                  /\ Cardinality(StepsOf(i)) = 1
                  /\ \A k \in StepsOf(i) :
                        /\ preprocessed_steps[k].normalized_action = ContextAction(raw_steps[i])
                        /\ preprocessed_steps[k].is_context_event
                        /\ \A h \in {"id", "class", "name", "test_id", "aria_label"} :
                              preprocessed_steps[k].element_hints[h] = <<>>
                        /\ preprocessed_steps[k].element_hints.tag =
                               <<"c", "o", "n", "t", "e", "x", "t">>
        /\ \A k \in DOMAIN preprocessed_steps :
              preprocessed_steps[k].is_context_event =>
                  /\ preprocessed_steps[k].normalized_action \in {"wait", "navigate"}
                  /\ pre_categories[preprocessed_steps[k].step_index + 1] = "context"
        /\ context_events = SelectSeq(preprocessed_steps, LAMBDA s : s.is_context_event)

\* a navigation event and an event of unknown type without markup or data
\* have been normalized to a navigate step and a wait step
C14_Witness ==
    /\ pre_pc = "done"
    /\ Len(raw_steps) = 2 /\ Len(preprocessed_steps) = 2
    /\ TypeName(raw_steps[1]) = "STEPS_FEATURE_NAVIGATE_EVENT"
    /\ preprocessed_steps[1].normalized_action = "navigate"
    /\ TypeName(raw_steps[2]) = "VENDOR_EVENT" /\ pre_categories[2] = "context"
    /\ preprocessed_steps[2].normalized_action = "wait"


\* the parameter keys the cleaning is documented to remove: the families
\* utm_*, gad*, adgrp*, hvp*, hvt*, hvr* and the keys ref, tag, crid,
\* sprefix, rps, lpg
Denylisted(key) ==
    \/ \E t \in { <<"u", "t", "m", "_">>, <<"g", "a", "d">>, <<"a", "d", "g", "r", "p">>,
                  <<"h", "v", "p">>, <<"h", "v", "t">>, <<"h", "v", "r">> } :
           StartsWith(key, t)
    \/ key \in { <<"r", "e", "f">>, <<"t", "a", "g">>, <<"c", "r", "i", "d">>,
                 <<"s", "p", "r", "e", "f", "i", "x">>, <<"r", "p", "s">>,
                 <<"l", "p", "g">> }

\* C17 as stated: the cleaned URL of a step has no parameter with a
\* denylisted key, keeps every other parameter of the recorded URL (repeated
\* keys and empty values included) in the original order, keeps scheme,
\* host, path and fragment, and cleaning it again changes nothing.
C17_CleanUrlKeepsOnlyAllowedParams ==
    pre_pc = "done" =>
        \A i \in DOMAIN raw_steps : \A k \in StepsOf(i) :
            raw_steps[i].url # <<>> =>
                \E c \in {preprocessed_steps[k].clean_url} :
                    /\ \A n \in DOMAIN c[4] : ~Denylisted(c[4][n][1])
                    /\ c[4] = SelectSeq(raw_steps[i].url[4], LAMBDA p : ~Denylisted(p[1]))
                    /\ c[1] = raw_steps[i].url[1] /\ c[2] = raw_steps[i].url[2]
                    /\ c[3] = raw_steps[i].url[3] /\ c[5] = raw_steps[i].url[5]
                    /\ StripTrackingParams(c) = c

-----------------------------------------------------------------------------
\* The value of the first attribute of the markup whose name is exactly name
\* (the name follows a blank and is followed by "=", a quote, one or more
\* characters that are not quotes, and a quote), <<>> when there is none.
ExactAttribute(html, name) ==
    LET starts == {p \in 2..(Len(html) - Len(name) - 3) :
                      /\ html[p - 1] = " "
                      /\ \A k \in 1..Len(name) : html[p + k - 1] = name[k]
                      /\ html[p + Len(name)] = "="
                      /\ html[p + Len(name) + 1] \in {"\"", "'"}
                      /\ html[p + Len(name) + 2] \notin {"\"", "'"}
                      /\ \E e \in (p + Len(name) + 3)..Len(html) : html[e] \in {"\"", "'"}}
    IN  IF starts = {} THEN <<>>
        ELSE LET p == CHOOSE q \in starts : \A r \in starts : q <= r
                 e == CHOOSE q \in (p + Len(name) + 3)..Len(html) :
                          /\ html[q] \in {"\"", "'"}
                          /\ \A j \in (p + Len(name) + 3)..(q - 1) : html[j] \notin {"\"", "'"}
             IN  SubSeq(html, p + Len(name) + 2, e - 1)

\* the attribute each hint of a normalized step is documented to carry
HintAttribute ==
    [id |-> <<"i", "d">>, class |-> <<"c", "l", "a", "s", "s">>,
     name |-> <<"n", "a", "m", "e">>,
     test_id |-> <<"d", "a", "t", "a", "-", "t", "e", "s", "t", "i", "d">>,
     aria_label |-> <<"a", "r", "i", "a", "-", "l", "a", "b", "e", "l">>]

\* C28: each of the hints id, class, name, test_id and aria_label of a
\* normalized action step equals the value of the first attribute of the
\* event's markup whose name is exactly that attribute, and is empty when
\* the markup has no such attribute.
C28_HintsReadExactAttributes ==
    pre_pc = "done" =>
        \A k \in DOMAIN preprocessed_steps :
            ~preprocessed_steps[k].is_context_event =>
                \A h \in DOMAIN HintAttribute :
                    preprocessed_steps[k].element_hints[h] =
                        ExactAttribute(raw_steps[preprocessed_steps[k].step_index + 1].eventElement,
                                       HintAttribute[h])

\* The same for markup in which no attribute name ends in the name of
\* another attribute.
C28_HintsOfPlainMarkup ==
    pre_pc = "done" =>
        \A k \in DOMAIN preprocessed_steps :
            (/\ ~preprocessed_steps[k].is_context_event
             /\ raw_steps[preprocessed_steps[k].step_index + 1].eventElement \notin CompoundMarkup) =>
                \A h \in DOMAIN HintAttribute :
                    preprocessed_steps[k].element_hints[h] =
                        ExactAttribute(raw_steps[preprocessed_steps[k].step_index + 1].eventElement,
                                       HintAttribute[h])

\* C29: an event whose type is in neither fixed set and that carries markup
\* or data is classified as an action, and after preprocess has returned it
\* either has a normalized step or its removal is recorded with its index
\* and a reason.
C29_UnknownEventWithPayloadNotDroppedSilently ==
    pre_pc = "done" =>
        \A i \in DOMAIN raw_steps :
            (/\ TypeName(raw_steps[i]) \notin CONTEXT_EVENT_TYPES \cup ACTION_EVENT_TYPES
             /\ HasPayload(raw_steps[i])) =>
                /\ pre_categories[i] = "action"
                /\ \/ StepsOf(i) # {}
                   \/ \E r \in RemovalReport : r.index = i - 1 /\ r.reason # <<>>

(* Claims about the IR builder, checked under SpecConv *)

\* C20 as stated: the IR builder repeats the gate's checks: a non-context
\* intent that the gate would reject yields no node, and no click, fill,
\* select or hover node is ever built without a selector.
C20_BuilderRepeatsGateChecks ==
    /\ (/\ conv_idx > 0
        /\ ~IsContextKind(conv_intents[conv_idx])
        /\ ValidateSingleIntent(conv_intents[conv_idx], conv_idx - 1).cleaned = <<>>)
          => conv_ast_node = <<>>
    /\ \A n \in DOMAIN conv_ast_nodes :
          conv_ast_nodes[n].action_type \in interactive_action_types
             => conv_ast_nodes[n].selector \notin {NoSelector, <<>>}


\* the selector convert_intent_to_ast resolves for an intent: the supplied
\* one, else the one recomputed from the markup of the step
SelectorResolvedFor(obj) ==
    IF Truthy(obj.selector) THEN obj.selector
    ELSE ExtractSelector(obj.original_step.eventElement)

\* the positions (1-based) of the intents that lower to a node
LoweredPositions ==
    {i \in DOMAIN conv_intents : ConvertIntentToAst(IntentAsRead(conv_intents[i])) # <<>>}

\* C21: every node of the IR builder has a selector that is absent or passes
\* the grammar check, supplied or recomputed from the markup; an intent
\* whose resolved selector fails the check gives no node, and the intents
\* after it are still processed: the call returns one node for every intent
\* that lowers.
C21_NodeSelectorsPassGrammar ==
    /\ \A n \in DOMAIN conv_ast_nodes :
          \/ conv_ast_nodes[n].selector = NoSelector
          \/ /\ conv_ast_nodes[n].selector # <<>>
             /\ IsValidCssSelector(conv_ast_nodes[n].selector)
    /\ (/\ conv_idx > 0
        /\ SelectorResolvedFor(conv_intents[conv_idx]) # NoSelector
        /\ ~IsValidCssSelector(SelectorResolvedFor(conv_intents[conv_idx])))
          => conv_ast_node = <<>>
    /\ Len(conv_ast_nodes) = Cardinality({i \in LoweredPositions : i <= conv_idx})
    /\ conv_pc = "returned" => conv_idx = Len(conv_intents)

\* C21 witness: a supplied selector and a recomputed one failed the check,
\* and the intent after them was lowered with its recomputed selector.
C21_Witness ==
    /\ conv_pc = "returned"
    /\ Len(conv_intents) = 3
    /\ conv_intents[1].selector = <<"p", ">">>
    /\ conv_intents[2].selector = <<>>
    /\ SelectorResolvedFor(conv_intents[2]) = <<"#", "a", ")">>
    /\ conv_intents[3].selector = <<>>
    /\ Len(conv_ast_nodes) = 1
    /\ conv_ast_nodes[1].selector = <<"#", "g">>


\* the kinds whose keyword occurs in a lowered text: navigate, click,
\* type/fill, select/choose, wait, scroll, hover, press
KeywordKinds(text) ==
    UNION {
       (IF Contains(text, <<"n", "a", "v", "i", "g", "a", "t", "e">>) THEN {"navigate"} ELSE {}),
       (IF Contains(text, <<"c", "l", "i", "c", "k">>) THEN {"click"} ELSE {}),
       (IF Contains(text, <<"t", "y", "p", "e">>) \/ Contains(text, <<"f", "i", "l", "l">>) THEN {"fill"} ELSE {}),
       (IF Contains(text, <<"s", "e", "l", "e", "c", "t">>) \/ Contains(text, <<"c", "h", "o", "o", "s", "e">>) THEN {"select"} ELSE {}),
       (IF Contains(text, <<"w", "a", "i", "t">>) THEN {"wait"} ELSE {}),
       (IF Contains(text, <<"s", "c", "r", "o", "l", "l">>) THEN {"scroll"} ELSE {}),
       (IF Contains(text, <<"h", "o", "v", "e", "r">>) THEN {"hover"} ELSE {}),
       (IF Contains(text, <<"p", "r", "e", "s", "s">>) THEN {"press"} ELSE {}) }

\* C22 as stated: the kind of the node of a non-context intent is decided
\* by the text alone: by a recognized "action:" marker whatever else the text
\* holds, else by the keyword that occurs in the text, else it is click; the
\* recorded event type never changes it.
C22_KindFromTextAlone ==
    (conv_idx > 0 /\ conv_ast_node # <<>>) =>
        \E text \in {Lower(conv_intents[conv_idx].intent)} :
            /\ ActionMap(ActionMarker(text)) # "none"
                  => conv_ast_node[1].action_type = ActionMap(ActionMarker(text))
            /\ (ActionMap(ActionMarker(text)) = "none" /\ KeywordKinds(text) = {})
                  => conv_ast_node[1].action_type = "click"
            /\ ActionMap(ActionMarker(text)) = "none"
                  => \A k \in KeywordKinds(text) :
                        KeywordKinds(text) = {k} => conv_ast_node[1].action_type = k

\* C25 as stated: when an intent carries no selector, the selector the IR
\* builder recomputes from the markup of the step is the one the selector
\* policy chooses for that markup (id, then data-testid, name, aria-label,
\* first class, tag).
C25_RecomputedSelectorFollowsPolicy ==
    (/\ conv_idx > 0
     /\ conv_ast_node # <<>>
     /\ conv_intents[conv_idx].selector = <<>>
     /\ conv_intents[conv_idx].original_step.eventElement # <<>>)
        => conv_ast_node[1].selector
              = ExtractStableSelector(conv_intents[conv_idx].original_step.eventElement)

====
